---- MODULE Spec2Model ----
(***************************************************************************)
(* Weather alerts: the condition evaluation engine                         *)
(* (src/src/conditions/evaluator.py), the occurrence store it keeps, the   *)
(* run of the program around it (src/src/main.py) and the email action's   *)
(* template substitution (src/src/actions/email.py).                       *)
(*                                                                         *)
(* Python values are modelled as follows.                                  *)
(*   str        a sequence of one-character strings, so that formatting    *)
(*              (f-strings, str(date)) is concatenation of characters      *)
(*   dict       a function whose DOMAIN is the set of keys present; the    *)
(*              keys of a configuration dict are TLA+ strings, the keys of *)
(*              a forecast record, of a context and of the store are str   *)
(*   number     [num |-> n], None is [null |-> TRUE] (a forecast value)    *)
(*   list       a sequence; a list read from the state file is             *)
(*              [list |-> sequence], to tell it from a dict                *)
(*   exception  [raised |-> name of the exception class]                   *)
(***************************************************************************)
EXTENDS Integers, Sequences, FiniteSets, TLC

(***************************************************************************)
(* Bounds of the model.                                                    *)
(***************************************************************************)
\* The clock runs over the years 2024 .. 2024 + MaxYear.
MaxYear == 1
\* Forecast sequences have at most MaxLen daily records.
MaxLen == 3
\* Forecasts given to combined conditions have at most MaxCombinedLen records.
MaxCombinedLen == 2
\* A combined condition has at most MaxSubs sub-conditions.
MaxSubs == 2

(***************************************************************************)
(* Strings and dicts.                                                      *)
(***************************************************************************)
Digit(n) == <<"0", "1", "2", "3", "4", "5", "6", "7", "8", "9">>[n + 1]

\* str(n) / f"{n}" of a non-negative int: its decimal digits.
RECURSIVE Str(_)
Str(n) == IF n < 10 THEN <<Digit(n)>> ELSE Str(n \div 10) \o <<Digit(n % 10)>>

\* n as decimal digits, zero-filled on the left to at least `width` characters.
RECURSIVE ZeroFill(_, _)
ZeroFill(s, width) == IF Len(s) >= width THEN s ELSE ZeroFill(<<"0">> \o s, width)

\* str(datetime.date(year, month, day)): the ISO form YYYY-MM-DD.
IsoDate(year, month, day) ==
    ZeroFill(Str(year), 4) \o <<"-">> \o ZeroFill(Str(month), 2)
        \o <<"-">> \o ZeroFill(Str(day), 2)

\* Python's None, and a number, as values of a forecast record.
None == [null |-> TRUE]
Num(n) == [num |-> n]

\* dict.get(key, default) and dict.get(key).
Get(d, key, default) == IF key \in DOMAIN d THEN d[key] ELSE default
GetOrNone(d, key) == Get(d, key, None)

\* The literal keys 'forecast_date' and 'date'.
FORECAST_DATE == <<"f", "o", "r", "e", "c", "a", "s", "t", "_", "d", "a", "t", "e">>
DATE == <<"d", "a", "t", "e">>

\* The empty dict {}.
EmptyDict == [k \in {} |-> None]

\* A Python list (what json.load returns for a JSON array).
List(items) == [list |-> items]

\* isinstance(v, dict), for a value that is a dict with str keys written in the
\* source, a list or None.
IsDict(v) == "list" \notin DOMAIN v /\ "null" \notin DOMAIN v

\* An exception that leaves the method.
Raised(exception) == [raised |-> exception]
HasRaised(outcome) == "raised" \in DOMAIN outcome

\* An update in which the entries already present win on a shared key.
Update_KeepsFirst(d, other) == d @@ other

\* dict(d) after d.update(other): the entries of `other` win on a shared key.
Update(d, other) == other @@ d

Min(S) == CHOOSE x \in S : \A y \in S : x <= y

Max2(a, b) == IF a >= b THEN a ELSE b

(***************************************************************************)
(* ConditionEvaluator: the pure parts.                                     *)
(***************************************************************************)
\* _compare_value with 'lte' implemented as <.
CompareValue_LteIsLt(value, operator, threshold) ==
    CASE operator = "lt"  -> value.num < threshold
      [] operator = "lte" -> value.num < threshold
      [] operator = "gt"  -> value.num > threshold
      [] operator = "gte" -> value.num >= threshold
      [] operator = "eq"  -> value.num = threshold
      [] OTHER            -> FALSE

\* _compare_value: values are [num |-> n].
CompareValue(value, operator, threshold) ==
    CASE operator = "lt"  -> value.num < threshold
      [] operator = "lte" -> value.num <= threshold
      [] operator = "gt"  -> value.num > threshold
      [] operator = "gte" -> value.num >= threshold
      [] operator = "eq"  -> value.num = threshold
      [] OTHER            -> FALSE

\* _is_in_season with the year-end wrap applied to every season.
IsInSeason_AlwaysWraps(current_month, start_month, end_month) ==
    current_month >= start_month \/ current_month <= end_month

\* _is_in_season with the end month excluded.
IsInSeason_ExclusiveEnd(current_month, start_month, end_month) ==
    IF start_month <= end_month
    THEN start_month <= current_month /\ current_month < end_month
    ELSE current_month >= start_month \/ current_month < end_month

\* _is_in_season
IsInSeason(current_month, start_month, end_month) ==
    IF start_month <= end_month
    THEN start_month <= current_month /\ current_month <= end_month
    ELSE current_month >= start_month \/ current_month <= end_month

\* forecast_data[:forecast_days]: the number of records Python's slice keeps
\* (a negative stop counts from the end of the list).
SliceStop(len, stop) ==
    IF stop >= 0
    THEN (IF stop < len THEN stop ELSE len)
    ELSE Max2(len + stop, 0)

Slice(forecast_data, forecast_days) ==
    SubSeq(forecast_data, 1, SliceStop(Len(forecast_data), forecast_days))

\* The context of a threshold match: {'forecast_date': day_data['date'], field: value}
\* (in a dict display the later entry wins on an equal key).
MatchContext(day_data, field, value) ==
    (field :> value) @@ (FORECAST_DATE :> day_data[DATE])

\* The loop, keeping the last match of the window instead of returning the first.
RECURSIVE ThresholdScan_LastMatch(_, _, _, _, _)
ThresholdScan_LastMatch(window, i, field, operator, threshold) ==
    IF i > Len(window)
    THEN [result |-> [triggered |-> FALSE], inspected |-> Len(window)]
    ELSE LET day_data == window[i]
             value == GetOrNone(day_data, field)
             later == ThresholdScan_LastMatch(window, i + 1, field, operator, threshold)
         IN  IF later.result.triggered
             THEN later
             ELSE IF value # None /\ CompareValue(value, operator, threshold)
                  THEN [result |-> [triggered |-> TRUE,
                                    context |-> MatchContext(day_data, field, value)],
                        inspected |-> Len(window)]
                  ELSE later

\* The loop with `if not value: continue`, which also skips a value of 0.
RECURSIVE ThresholdScan_ZeroIsMissing(_, _, _, _, _)
ThresholdScan_ZeroIsMissing(window, i, field, operator, threshold) ==
    IF i > Len(window)
    THEN [result |-> [triggered |-> FALSE], inspected |-> Len(window)]
    ELSE LET day_data == window[i]
             value == GetOrNone(day_data, field)
         IN  IF value = None \/ value = Num(0)
             THEN ThresholdScan_ZeroIsMissing(window, i + 1, field, operator, threshold)
             ELSE IF CompareValue(value, operator, threshold)
                  THEN [result |-> [triggered |-> TRUE,
                                    context |-> MatchContext(day_data, field, value)],
                        inspected |-> i]
                  ELSE ThresholdScan_ZeroIsMissing(window, i + 1, field, operator, threshold)

\* The loop of _evaluate_threshold over the window, from index i on: the result,
\* and `inspected`, the number of records the loop has visited when it returns.
RECURSIVE ThresholdScan(_, _, _, _, _)
ThresholdScan(window, i, field, operator, threshold) ==
    IF i > Len(window)
    THEN [result |-> [triggered |-> FALSE], inspected |-> Len(window)]
    ELSE LET day_data == window[i]
             value == GetOrNone(day_data, field)
         IN  IF value = None
             THEN ThresholdScan(window, i + 1, field, operator, threshold)
             ELSE IF CompareValue(value, operator, threshold)
                  THEN [result |-> [triggered |-> TRUE,
                                    context |-> MatchContext(day_data, field, value)],
                        inspected |-> i]
                  ELSE ThresholdScan(window, i + 1, field, operator, threshold)

\* _evaluate_threshold with the loop's visit count.
ThresholdRun(condition, forecast_data) ==
    LET weather_cond == condition.weather_condition
        field == weather_cond.field
        operator == weather_cond.operator
        threshold == weather_cond.value
        forecast_days == Get(weather_cond, "forecast_days", 1)
    IN  ThresholdScan(Slice(forecast_data, forecast_days), 1, field, operator, threshold)

\* _evaluate_threshold
EvaluateThreshold(condition, forecast_data) ==
    ThresholdRun(condition, forecast_data).result

\* The state key formatted without the separators between its parts.
StateKey_NoSeparators(field, season_start, season_end) ==
    <<"f", "i", "r", "s", "t", "_">> \o field \o Str(season_start) \o Str(season_end)

\* The state key of a first_occurrence condition:
\* f"first_{condition['weather_condition']['field']}_{season_start}_{season_end}"
StateKey(field, season_start, season_end) ==
    <<"f", "i", "r", "s", "t", "_">> \o field \o <<"_">> \o Str(season_start)
        \o <<"_">> \o Str(season_end)

\* The record with the decision date and the forecast date swapped.
OccurrenceRecord_DatesSwapped(clock, weather_result) ==
    [year |-> clock.year,
     date |-> weather_result.context[FORECAST_DATE],
     forecast_date |-> IsoDate(clock.year, clock.month, clock.day)]

\* The record with the year before the decision year.
OccurrenceRecord_YearBefore(clock, weather_result) ==
    [year |-> clock.year - 1,
     date |-> IsoDate(clock.year, clock.month, clock.day),
     forecast_date |-> weather_result.context[FORECAST_DATE]]

\* The record written when a first occurrence fires.
OccurrenceRecord(clock, weather_result) ==
    [year |-> clock.year,
     date |-> IsoDate(clock.year, clock.month, clock.day),
     forecast_date |-> weather_result.context[FORECAST_DATE]]

\* _evaluate_first_occurrence without the "already occurred this season" check.
EvaluateFirstOccurrence_NoDedup(condition, forecast_data, st, clock) ==
    LET season_start == Get(condition, "season_start_month", 1)
        season_end == Get(condition, "season_end_month", 12)
        state_key == StateKey(condition.weather_condition.field, season_start, season_end)
        weather_result == EvaluateThreshold(condition, forecast_data)
    IN  IF ~IsInSeason(clock.month, season_start, season_end)
        THEN [result |-> [triggered |-> FALSE], state |-> st]
        ELSE IF weather_result.triggered
             THEN [result |-> weather_result,
                   state |-> [st EXCEPT !.occurrences =
                                (state_key :> OccurrenceRecord(clock, weather_result))
                                   @@ st.occurrences]]
             ELSE [result |-> [triggered |-> FALSE], state |-> st]

\* _evaluate_first_occurrence that treats any record of the key as "already
\* occurred", whatever its year.
EvaluateFirstOccurrence_NoYear(condition, forecast_data, st, clock) ==
    LET season_start == Get(condition, "season_start_month", 1)
        season_end == Get(condition, "season_end_month", 12)
        state_key == StateKey(condition.weather_condition.field, season_start, season_end)
        weather_result == EvaluateThreshold(condition, forecast_data)
    IN  IF ~IsInSeason(clock.month, season_start, season_end)
        THEN [result |-> [triggered |-> FALSE], state |-> st]
        ELSE IF state_key \in DOMAIN st.occurrences
             THEN [result |-> [triggered |-> FALSE], state |-> st]
             ELSE IF weather_result.triggered
                  THEN [result |-> weather_result,
                        state |-> [st EXCEPT !.occurrences =
                                     (state_key :> OccurrenceRecord(clock, weather_result))
                                        @@ st.occurrences]]
                  ELSE [result |-> [triggered |-> FALSE], state |-> st]

\* _evaluate_first_occurrence that replaces the whole 'occurrences' dict by the
\* new record instead of assigning one key.
EvaluateFirstOccurrence_ReplacesStore(condition, forecast_data, st, clock) ==
    LET season_start == Get(condition, "season_start_month", 1)
        season_end == Get(condition, "season_end_month", 12)
        state_key == StateKey(condition.weather_condition.field, season_start, season_end)
        weather_result == EvaluateThreshold(condition, forecast_data)
    IN  IF ~IsInSeason(clock.month, season_start, season_end)
        THEN [result |-> [triggered |-> FALSE], state |-> st]
        ELSE IF /\ state_key \in DOMAIN st.occurrences
                /\ st.occurrences[state_key].year = clock.year
             THEN [result |-> [triggered |-> FALSE], state |-> st]
             ELSE IF weather_result.triggered
                  THEN [result |-> weather_result,
                        state |-> [st EXCEPT !.occurrences =
                                     (state_key :> OccurrenceRecord(clock, weather_result))]]
                  ELSE [result |-> [triggered |-> FALSE], state |-> st]

\* _evaluate_first_occurrence with a state key that also names the threshold
\* value.
EvaluateFirstOccurrence_KeyedByValue(condition, forecast_data, st, clock) ==
    LET season_start == Get(condition, "season_start_month", 1)
        season_end == Get(condition, "season_end_month", 12)
        state_key == StateKey(condition.weather_condition.field, season_start, season_end)
                        \o <<"_">> \o Str(condition.weather_condition.value)
        weather_result == EvaluateThreshold(condition, forecast_data)
    IN  IF ~IsInSeason(clock.month, season_start, season_end)
        THEN [result |-> [triggered |-> FALSE], state |-> st]
        ELSE IF /\ state_key \in DOMAIN st.occurrences
                /\ st.occurrences[state_key].year = clock.year
             THEN [result |-> [triggered |-> FALSE], state |-> st]
             ELSE IF weather_result.triggered
                  THEN [result |-> weather_result,
                        state |-> [st EXCEPT !.occurrences =
                                     (state_key :> OccurrenceRecord(clock, weather_result))
                                        @@ st.occurrences]]
                  ELSE [result |-> [triggered |-> FALSE], state |-> st]

\* _evaluate_first_occurrence on the store st at wall-clock time `clock`:
\* the value returned (or the exception raised) and the store afterwards.
\* self.state['occurrences'] raises TypeError on a list or None and KeyError
\* on a dict without the key; last_occurrence.get raises AttributeError on a
\* record that is not a dict.
EvaluateFirstOccurrence(condition, forecast_data, st, clock) ==
    LET season_start == Get(condition, "season_start_month", 1)
        season_end == Get(condition, "season_end_month", 12)
        state_key == StateKey(condition.weather_condition.field, season_start, season_end)
        current_year == clock.year
        weather_result == EvaluateThreshold(condition, forecast_data)
    IN  IF ~IsInSeason(clock.month, season_start, season_end)
        THEN [result |-> [triggered |-> FALSE], state |-> st]
        ELSE IF ~IsDict(st)
        THEN [result |-> Raised("TypeError"), state |-> st]
        ELSE IF "occurrences" \notin DOMAIN st
        THEN [result |-> Raised("KeyError"), state |-> st]
        ELSE IF /\ state_key \in DOMAIN st.occurrences
                /\ ~IsDict(st.occurrences[state_key])
        THEN [result |-> Raised("AttributeError"), state |-> st]
        ELSE IF /\ state_key \in DOMAIN st.occurrences
                /\ "year" \in DOMAIN st.occurrences[state_key]
                /\ st.occurrences[state_key].year = current_year
             THEN [result |-> [triggered |-> FALSE], state |-> st]
             ELSE IF weather_result.triggered
                  THEN [result |-> weather_result,
                        state |-> [st EXCEPT !.occurrences =
                                     (state_key :> OccurrenceRecord(clock, weather_result))
                                        @@ st.occurrences]]
                  ELSE [result |-> [triggered |-> FALSE], state |-> st]

\* The loop of _evaluate_combined from sub-condition i on: (matches, contexts).
RECURSIVE CombinedScan(_, _, _)
CombinedScan(weather_conds, i, forecast_data) ==
    IF i > Len(weather_conds)
    THEN [matches |-> 0, contexts |-> <<>>]
    ELSE LET temp_condition == [type |-> "threshold", weather_condition |-> weather_conds[i]]
             result == EvaluateThreshold(temp_condition, forecast_data)
             rest == CombinedScan(weather_conds, i + 1, forecast_data)
         IN  IF result.triggered
             THEN [matches |-> rest.matches + 1,
                   contexts |-> <<result.context>> \o rest.contexts]
             ELSE rest

\* merged_context after `for ctx in contexts: merged_context.update(ctx)`.
RECURSIVE MergeContexts(_, _)
MergeContexts(merged_context, contexts) ==
    IF contexts = <<>>
    THEN merged_context
    ELSE MergeContexts(Update(merged_context, Head(contexts)), Tail(contexts))

\* _evaluate_combined with all_must_match defaulting to false.
EvaluateCombined_DefaultAny(condition, forecast_data) ==
    LET weather_conds == condition.weather_conditions
        all_must_match == Get(condition, "all_must_match", FALSE)
        scan == CombinedScan(weather_conds, 1, forecast_data)
        triggered == IF all_must_match
                     THEN scan.matches = Len(weather_conds)
                     ELSE scan.matches > 0
    IN  IF triggered
        THEN [triggered |-> TRUE, context |-> MergeContexts(EmptyDict, scan.contexts)]
        ELSE [triggered |-> FALSE]

\* _evaluate_combined that leaves the context out when nothing was merged.
EvaluateCombined_NoEmptyContext(condition, forecast_data) ==
    LET weather_conds == condition.weather_conditions
        all_must_match == Get(condition, "all_must_match", TRUE)
        scan == CombinedScan(weather_conds, 1, forecast_data)
        triggered == IF all_must_match
                     THEN scan.matches = Len(weather_conds)
                     ELSE scan.matches > 0
    IN  IF triggered /\ scan.contexts # <<>>
        THEN [triggered |-> TRUE, context |-> MergeContexts(EmptyDict, scan.contexts)]
        ELSE [triggered |-> triggered]

\* _evaluate_combined
EvaluateCombined(condition, forecast_data) ==
    LET weather_conds == condition.weather_conditions
        all_must_match == Get(condition, "all_must_match", TRUE)
        scan == CombinedScan(weather_conds, 1, forecast_data)
        triggered == IF all_must_match
                     THEN scan.matches = Len(weather_conds)
                     ELSE scan.matches > 0
    IN  IF triggered
        THEN [triggered |-> TRUE, context |-> MergeContexts(EmptyDict, scan.contexts)]
        ELSE [triggered |-> FALSE]

\* evaluate that treats a type it does not know as a threshold condition.
EvaluateCondition_UnknownAsThreshold(condition, forecast_data, st, clock) ==
    LET condition_type == Get(condition, "type", "threshold")
    IN  CASE condition_type = "first_occurrence" ->
               EvaluateFirstOccurrence(condition, forecast_data, st, clock)
          [] condition_type = "combined" ->
               [result |-> EvaluateCombined(condition, forecast_data), state |-> st]
          [] OTHER ->
               [result |-> EvaluateThreshold(condition, forecast_data), state |-> st]

\* evaluate: dispatch on the condition's type.
EvaluateCondition(condition, forecast_data, st, clock) ==
    LET condition_type == Get(condition, "type", "threshold")
    IN  CASE condition_type = "threshold" ->
               [result |-> EvaluateThreshold(condition, forecast_data), state |-> st]
          [] condition_type = "first_occurrence" ->
               EvaluateFirstOccurrence(condition, forecast_data, st, clock)
          [] condition_type = "combined" ->
               [result |-> EvaluateCombined(condition, forecast_data), state |-> st]
          [] OTHER ->
               [result |-> [triggered |-> FALSE], state |-> st]

(***************************************************************************)
(* The state file. Its content is a JSON document, modelled as the JSON     *)
(* value json.dump writes: an object is [object |-> set of <<name, value>>  *)
(* members], a number is [number |-> its decimal digits], a string is       *)
(* [string |-> its characters].                                            *)
(***************************************************************************)
\* json.dump of one occurrence record {'year': int, 'date': str, 'forecast_date': str}.
DumpRecord(record) ==
    [object |-> {<<"year", [number |-> Str(record.year)]>>,
                 <<"date", [string |-> record.date]>>,
                 <<"forecast_date", [string |-> record.forecast_date]>>}]

\* json.dump(self.state, f, indent=2): the document written, for a store that
\* is a dict of dicts of occurrence records ({'occurrences': {...}}, or {}).
JsonDump(st) ==
    [object |->
        {<<name, [object |-> {<<k, DumpRecord(st[name][k])>> : k \in DOMAIN st[name]}]>> :
            name \in DOMAIN st}]

\* int(digits): the number a string of decimal digits denotes.
DigitValue(ch) == CHOOSE n \in 0..9 : Digit(n) = ch
RECURSIVE ParseInt(_)
ParseInt(s) ==
    IF s = <<>> THEN 0 ELSE 10 * ParseInt(SubSeq(s, 1, Len(s) - 1)) + DigitValue(s[Len(s)])

\* json.load: the Python value of a JSON value (an object becomes a dict, an
\* array a list, null becomes None).
RECURSIVE JsonLoad(_)
JsonLoad(j) ==
    IF "number" \in DOMAIN j THEN ParseInt(j.number)
    ELSE IF "string" \in DOMAIN j THEN j.string
    ELSE IF "null" \in DOMAIN j THEN None
    ELSE IF "array" \in DOMAIN j THEN List([i \in DOMAIN j.array |-> JsonLoad(j.array[i])])
    ELSE [name \in {member[1] : member \in j.object} |->
            JsonLoad((CHOOSE member \in j.object : member[1] = name)[2])]

\* The state file does not exist.
Absent == [absent |-> TRUE]

\* The state file exists but open() raises IOError (no permission, a directory).
Unreadable == [unreadable |-> TRUE]

\* The state file holds text that is not JSON: json.load raises JSONDecodeError.
Corrupt == [corrupt |-> TRUE]

\* The state file holds bytes that are not text in the encoding open() reads
\* with: f.read() inside json.load raises UnicodeDecodeError (a ValueError that
\* is neither a JSONDecodeError nor an IOError).
Undecodable == [undecodable |-> TRUE]

\* _load_state when the state file does not exist.
EmptyState == [occurrences |-> EmptyDict]

\* _load_state that falls through to the default store.
LoadState_AlwaysDefault(file) == EmptyState

\* _load_state: the document of the state file, or the empty store; only
\* JSONDecodeError and IOError are caught.
LoadState(file) ==
    IF file = Absent THEN EmptyState
    ELSE IF file = Unreadable THEN EmptyState
    ELSE IF file = Corrupt THEN EmptyState
    ELSE IF file = Undecodable THEN Raised("UnicodeDecodeError")
    ELSE JsonLoad(file)

(***************************************************************************)
(* Inputs: the fields, conditions and forecasts the model draws from.      *)
(***************************************************************************)
\* The forecast fields 'temperature_min' and 'precipitation_probability'.
temperature_min ==
    <<"t", "e", "m", "p", "e", "r", "a", "t", "u", "r", "e", "_", "m", "i", "n">>
precipitation_probability ==
    <<"p", "r", "e", "c", "i", "p", "i", "t", "a", "t", "i", "o", "n", "_">>
        \o <<"p", "r", "o", "b", "a", "b", "i", "l", "i", "t", "y">>

\* The date of the i-th daily record of a forecast: 2024-01-15, 2024-01-16, ...
ForecastDate(i) == IsoDate(2024, 1, 14 + i)

\* All sequences over S of length 0 .. n.
SeqsUpTo(S, n) == UNION {[1..k -> S] : k \in 0..n}

\* The forecast whose i-th record carries the minimum temperature temps[i].
TempForecast(temps) ==
    [i \in 1..Len(temps) |-> (DATE :> ForecastDate(i)) @@ (temperature_min :> Num(temps[i]))]

\* Forecasts for the seasonal rules: no data, a freezing night (28) today,
\* tomorrow only, and no freezing night at all.
SeasonForecasts ==
    {TempForecast(temps) : temps \in {<<>>, <<28>>, <<35, 28>>, <<35, 35>>}}

\* Forecasts for the process runs: a freezing night today, or a mild one.
RunForecasts == {TempForecast(temps) : temps \in {<<28>>, <<35>>}}

\* "First freeze" thresholds: tmin <= 32.
Freeze(forecast_days) ==
    [field |-> temperature_min, operator |-> "lte", value |-> 32] @@ forecast_days

\* A season that wraps the year end (November .. February), window of 2 days.
FreezeWinter ==
    [type |-> "first_occurrence",
     weather_condition |-> Freeze([forecast_days |-> 2]),
     season_start_month |-> 11,
     season_end_month |-> 2]

\* All defaults: season 1 .. 12, window of 1 day.
FreezeAnyMonth ==
    [type |-> "first_occurrence",
     weather_condition |-> Freeze(EmptyDict)]

\* A season inside one year (August .. December), as in the repository's tests.
FreezeAutumn ==
    [type |-> "first_occurrence",
     weather_condition |-> Freeze([forecast_days |-> 2]),
     season_start_month |-> 8,
     season_end_month |-> 12]

SeasonConditions == {FreezeWinter, FreezeAnyMonth, FreezeAutumn}

\* config['alert_rules']: the configurations the model starts from, two
\* seasonal rules each.
Rule(name, condition) == [name |-> name, condition |-> condition]

SeasonConfigs ==
    {<<Rule("winter", FreezeWinter), Rule("any", FreezeAnyMonth)>>,
     <<Rule("winter", FreezeWinter), Rule("autumn", FreezeAutumn)>>,
     <<Rule("any", FreezeAnyMonth), Rule("autumn", FreezeAutumn)>>}

\* The season bounds and the state key a first_occurrence condition resolves to.
SeasonStart(condition) == Get(condition, "season_start_month", 1)
SeasonEnd(condition) == Get(condition, "season_end_month", 12)
KeyOf(condition) ==
    StateKey(condition.weather_condition.field, SeasonStart(condition), SeasonEnd(condition))

SeasonKeys == {KeyOf(c) : c \in SeasonConditions}

IsFirstOccurrence(condition) == Get(condition, "type", "threshold") = "first_occurrence"

\* The state document {"occurrences": {...}} with the given members.
StoreDocument(members) == [object |-> {<<"occurrences", [object |-> members]>>}]

\* The document a run writes after the all-year rule has fired in January 2024.
FiredIn2024 ==
    JsonDump([occurrences |->
                (KeyOf(FreezeAnyMonth) :> [year |-> 2024,
                                           date |-> IsoDate(2024, 1, 15),
                                           forecast_date |-> ForecastDate(1)])])

\* Well-formed JSON that is not a store: {}, [], null, and a store whose
\* record for the all-year rule's key is null or a list.
MalformedDocuments ==
    {[object |-> {}],
     [array |-> <<>>],
     [null |-> TRUE],
     StoreDocument({<<KeyOf(FreezeAnyMonth), [null |-> TRUE]>>}),
     StoreDocument({<<KeyOf(FreezeAnyMonth), [array |-> <<>>]>>})}

\* What the model finds at the state file's path: nothing, a file that cannot
\* be opened, text that is not JSON, bytes that are not text, documents that
\* save_state wrote, a store whose record is an empty mapping, and malformed
\* documents.
StateFiles ==
    {Absent, Unreadable, Corrupt, Undecodable, JsonDump(EmptyState), FiredIn2024,
     StoreDocument({<<KeyOf(FreezeAnyMonth), [object |-> {}]>>})}
        \cup MalformedDocuments

(***************************************************************************)
(* State.                                                                  *)
(***************************************************************************)
VARIABLES
    now,          \* datetime.now(): [year, month, day]
    alert_rules,  \* config['alert_rules']: the configured rules, in list order
    state_file,   \* the persisted state document, or Absent
    pc,           \* where the process is: "idle" (no evaluator), "evaluating"
                  \* (evaluator constructed), "saved" (save_state has returned),
                  \* "crashed" (ended by an uncaught exception), "exited"
                  \* (sys.exit(1))
    state,        \* self.state of the evaluator: [occurrences |-> dict]
    call,         \* the last evaluate call: its arguments and self.state as the
                  \* call found it (.before), or NoCall; for a call of
                  \* _substitute_template, its arguments
    result,       \* the value the last call returned, the exception that ended
                  \* the process, the warning save_state printed, or NoCall
    fired,        \* history: per state key, how many evaluate calls returned
                  \* triggered=true in the current calendar year (.year), of
                  \* these in the current process run (.run), and in the current
                  \* contiguous in-season period (.season), each up to 2, and
                  \* the latest year in which one did (.last, 0 if none)
    main,         \* the locals and effects of a run of main(), or NoMain
    other         \* a second process on the same state file: where it is
                  \* (.pc), the store of its evaluator (.state) and the value
                  \* its last evaluate call returned (.result); or NoOther

vars == <<now, alert_rules, state_file, pc, state, call, result, fired, main, other>>

\* There is no second process.
NoOther == [none |-> TRUE]

\* main() is not running: the evaluator is driven directly.
NoMain == [none |-> TRUE]

NoCall == [none |-> TRUE]

\* No evaluator has been constructed.
NoEvaluator == [none |-> TRUE]

NoneFired == [k \in SeasonKeys |-> [year |-> 0, run |-> 0, season |-> 0, last |-> 0]]

\* The clock starts in January 2024; it is read on the 15th of a month.
StartOfTime == [year |-> 2024, month |-> 1, day |-> 15]

LastYear == 2024 + MaxYear

\* The month after `clock`.
NextMonth(clock) ==
    IF clock.month = 12
    THEN [clock EXCEPT !.year = @ + 1, !.month = 1]
    ELSE [clock EXCEPT !.month = @ + 1]

\* The year a season's current in-season period started in: a wrapping season
\* (start > end) that is in its January-side months started the year before.
SeasonYear(clock, season_start, season_end) ==
    IF season_start > season_end /\ clock.month <= season_end
    THEN clock.year - 1
    ELSE clock.year

\* At `after` the key k is still in the in-season period it was in at `before`.
SamePeriod(k, before, after) ==
    \E c \in SeasonConditions :
        /\ KeyOf(c) = k
        /\ IsInSeason(after.month, SeasonStart(c), SeasonEnd(c))
        /\ SeasonYear(after, SeasonStart(c), SeasonEnd(c))
             = SeasonYear(before, SeasonStart(c), SeasonEnd(c))

Bump(n) == IF n < 2 THEN n + 1 ELSE 2

\* The history after the clock has moved from `before` to `after`: a new
\* calendar year starts the per-year count again, the end of a key's in-season
\* period starts its per-season count again.
Elapse(before, after) ==
    [k \in SeasonKeys |->
        [year |-> IF after.year # before.year THEN 0 ELSE fired[k].year,
         run |-> IF after.year # before.year THEN 0 ELSE fired[k].run,
         season |-> IF SamePeriod(k, before, after) THEN fired[k].season ELSE 0,
         last |-> fired[k].last]]

\* The history after a call on `condition` that returned `res`.
Count(condition, res) ==
    IF /\ IsFirstOccurrence(condition)
       /\ KeyOf(condition) \in SeasonKeys
       /\ ~HasRaised(res)
       /\ res.triggered
    THEN [fired EXCEPT ![KeyOf(condition)] =
             [year |-> Bump(@.year), run |-> Bump(@.run), season |-> Bump(@.season),
              last |-> now.year]]
    ELSE fired

(***************************************************************************)
(* One evaluator instance and the wall clock.                              *)
(***************************************************************************)
\* ConditionEvaluator(state_file) has been constructed with no state file.
Init ==
    /\ now = StartOfTime
    /\ alert_rules \in SeasonConfigs
    /\ state_file = Absent
    /\ pc = "evaluating"
    /\ state = EmptyState
    /\ call = NoCall
    /\ result = NoCall
    /\ fired = NoneFired
    /\ main = NoMain
    /\ other = NoOther

\* Time passes: the wall clock moves to the next month.
Tick ==
    /\ NextMonth(now).year <= LastYear
    /\ now' = NextMonth(now)
    /\ fired' = Elapse(now, now')
    /\ call' = NoCall
    /\ result' = NoCall
    /\ UNCHANGED <<alert_rules, state_file, pc, state, main, other>>

\* The call evaluator.evaluate(condition, forecast_data): the store and the
\* value returned; an exception it raises is not caught by any caller and ends
\* the process.
EvaluateCall(condition, forecast_data) ==
    LET out == EvaluateCondition(condition, forecast_data, state, now)
    IN  /\ pc = "evaluating"
        /\ state' = out.state
        /\ result' = out.result
        /\ call' = [condition |-> condition, forecast_data |-> forecast_data,
                    before |-> state]
        /\ fired' = Count(condition, out.result)
        /\ pc' = IF HasRaised(out.result) THEN "crashed" ELSE pc
        /\ UNCHANGED <<now, alert_rules, state_file, other>>

\* evaluator.evaluate(condition, forecast_data), called directly.
Evaluate(condition, forecast_data) ==
    EvaluateCall(condition, forecast_data) /\ UNCHANGED main

\* A configured seasonal rule is evaluated on a forecast.
EvaluateRule ==
    \E i \in DOMAIN alert_rules, forecast_data \in SeasonForecasts :
        Evaluate(alert_rules[i].condition, forecast_data)

Next == Tick \/ EvaluateRule

Spec == Init /\ [][Next]_vars

(***************************************************************************)
(* Process runs, one after the other, on one state file: each run           *)
(* constructs an evaluator (loading the file), evaluates rules, and saves.  *)
(***************************************************************************)
InitRuns ==
    /\ now = StartOfTime
    /\ alert_rules \in SeasonConfigs
    /\ state_file = Absent
    /\ pc = "idle"
    /\ state = NoEvaluator
    /\ call = NoCall
    /\ result = NoCall
    /\ fired = NoneFired
    /\ main = NoMain
    /\ other = NoOther

\* evaluator = ConditionEvaluator(state_file), once the previous run is over.
\* Until then `state` keeps the store that run held when it ended.
\* An exception raised by _load_state leaves the constructor: there is no
\* evaluator and the process ends.
ConstructCall ==
    LET loaded == LoadState(state_file)
    IN  /\ pc \in {"idle", "saved"}
        /\ state' = IF HasRaised(loaded) THEN NoEvaluator ELSE loaded
        /\ pc' = IF HasRaised(loaded) THEN "crashed" ELSE "evaluating"
        /\ call' = NoCall
        /\ result' = IF HasRaised(loaded) THEN loaded ELSE NoCall
        /\ fired' = [k \in SeasonKeys |-> [fired[k] EXCEPT !.run = 0]]
        /\ UNCHANGED <<now, alert_rules, state_file, other>>

Construct == ConstructCall /\ UNCHANGED main

\* A save_state that reads the state file again and adds the records it finds
\* there to its own before writing.
SaveStateCall_Merges ==
    /\ pc = "evaluating"
    /\ state_file' = JsonDump([occurrences |->
                                 state.occurrences @@ LoadState(state_file).occurrences])
    /\ pc' = "saved"
    /\ call' = NoCall
    /\ result' = NoCall
    /\ UNCHANGED <<now, alert_rules, state, fired, other>>

\* evaluator.save_state() at the end of the run; the write succeeds.
SaveStateCall ==
    /\ pc = "evaluating"
    /\ state_file' = JsonDump(state)
    /\ pc' = "saved"
    /\ call' = NoCall
    /\ result' = NoCall
    /\ UNCHANGED <<now, alert_rules, state, fired, other>>

SaveState == SaveStateCall /\ UNCHANGED main

\* A configured seasonal rule is evaluated on the forecast the run fetched.
EvaluateRuleInRun ==
    \E i \in DOMAIN alert_rules, forecast_data \in RunForecasts :
        Evaluate(alert_rules[i].condition, forecast_data)

\* Time passes between two runs (a run is short against the monthly clock).
TickBetweenRuns == pc # "evaluating" /\ Tick

NextRuns == Construct \/ EvaluateRuleInRun \/ SaveState \/ TickBetweenRuns

SpecRuns == InitRuns /\ [][NextRuns]_vars

(***************************************************************************)
(* Process runs whose save_state may fail: the runs of one day, one after   *)
(* the other, on one state file.                                            *)
(***************************************************************************)
\* print(f"Warning: Failed to save state: {e}"), with the document the state
\* file held when save_state was called.
SaveWarning(file_before) ==
    [warning |-> "Failed to save state", file_before |-> file_before]

\* evaluator.save_state() when the write fails with an IOError, which the
\* method catches: either open(self.state_file, 'w') raises and the file is as
\* it was, or open has truncated the file and json.dump (or the flush on
\* leaving the with block) raises, which leaves an empty or partial text that
\* is not a JSON document.
SaveStateFailure ==
    /\ pc = "evaluating"
    /\ \E failed_in \in {"open", "write"} :
         state_file' = IF failed_in = "open" THEN state_file ELSE Corrupt
    /\ pc' = "saved"
    /\ call' = NoCall
    /\ result' = SaveWarning(state_file)
    /\ UNCHANGED <<now, alert_rules, state, fired, main, other>>

NextSaves == Construct \/ EvaluateRuleInRun \/ SaveState \/ SaveStateFailure

SpecSaves == InitRuns /\ [][NextSaves]_vars

(***************************************************************************)
(* Two processes on one state file, one run each, their steps interleaved   *)
(* in any order: nothing locks the file between a load and the save.        *)
(***************************************************************************)
InitTwo ==
    /\ now = StartOfTime
    /\ alert_rules \in SeasonConfigs
    /\ state_file = Absent
    /\ pc = "idle"
    /\ state = NoEvaluator
    /\ call = NoCall
    /\ result = NoCall
    /\ fired = NoneFired
    /\ main = NoMain
    /\ other = [pc |-> "idle", state |-> NoEvaluator, result |-> NoCall]

\* The first process constructs its evaluator.
ConstructOnce == pc = "idle" /\ Construct

\* The second process: evaluator = ConditionEvaluator(state_file).
OtherConstruct ==
    LET loaded == LoadState(state_file)
    IN  /\ other.pc = "idle"
        /\ other' = IF HasRaised(loaded)
                    THEN [pc |-> "crashed", state |-> NoEvaluator, result |-> loaded]
                    ELSE [pc |-> "evaluating", state |-> loaded, result |-> NoCall]
        /\ UNCHANGED <<now, alert_rules, state_file, pc, state, call, result, fired, main>>

\* The second process: evaluator.evaluate(rule['condition'], forecast_data).
OtherEvaluateRule ==
    /\ other.pc = "evaluating"
    /\ \E i \in DOMAIN alert_rules, forecast_data \in RunForecasts :
         LET out == EvaluateCondition(alert_rules[i].condition, forecast_data,
                                      other.state, now)
         IN  /\ other' = [pc |-> IF HasRaised(out.result) THEN "crashed" ELSE "evaluating",
                          state |-> out.state,
                          result |-> out.result]
             /\ fired' = Count(alert_rules[i].condition, out.result)
    /\ UNCHANGED <<now, alert_rules, state_file, pc, state, call, result, main>>

\* The second process: evaluator.save_state(); the write succeeds.
OtherSaveState ==
    /\ other.pc = "evaluating"
    /\ state_file' = JsonDump(other.state)
    /\ other' = [other EXCEPT !.pc = "saved", !.result = NoCall]
    /\ UNCHANGED <<now, alert_rules, pc, state, call, result, fired, main>>

NextTwo ==
    \/ ConstructOnce \/ EvaluateRuleInRun \/ SaveState
    \/ OtherConstruct \/ OtherEvaluateRule \/ OtherSaveState

SpecTwo == InitTwo /\ [][NextTwo]_vars

(***************************************************************************)
(* One process on whatever it finds at the state file's path: it constructs *)
(* the evaluator and evaluates rules.                                       *)
(***************************************************************************)
InitFiles ==
    /\ now \in {StartOfTime, [StartOfTime EXCEPT !.year = LastYear]}
    /\ alert_rules \in SeasonConfigs
    /\ state_file \in StateFiles
    /\ pc = "idle"
    /\ state = NoEvaluator
    /\ call = NoCall
    /\ result = NoCall
    /\ fired = NoneFired
    /\ main = NoMain
    /\ other = NoOther

NextFiles == Construct \/ EvaluateRuleInRun

SpecFiles == InitFiles /\ [][NextFiles]_vars

(***************************************************************************)
(* main(): one run of the program.                                          *)
(***************************************************************************)
\* A configuration has at most MaxRules alert rules.
MaxRules == 2

\* `key=value` as the f-string f"{k}={v}" renders it: forecast_date holds a
\* str, every other key of a context a number.
ItemStr(key, value) ==
    key \o <<"=">> \o (IF key = FORECAST_DATE THEN value ELSE Str(value.num))

\* The keys of a threshold context in insertion order: 'forecast_date', then
\* the field.
KeyOrder(context) ==
    (IF FORECAST_DATE \in DOMAIN context THEN <<FORECAST_DATE>> ELSE <<>>)
        \o (IF DOMAIN context \ {FORECAST_DATE} = {}
            THEN <<>>
            ELSE <<CHOOSE k \in DOMAIN context : k # FORECAST_DATE>>)

\* ', '.join(f"{k}={v}" for k, v in context.items())
RECURSIVE JoinItems(_, _)
JoinItems(context, keys) ==
    IF keys = <<>> THEN <<>>
    ELSE ItemStr(Head(keys), context[Head(keys)])
            \o (IF Tail(keys) = <<>> THEN <<>> ELSE <<",", " ">>)
            \o JoinItems(context, Tail(keys))

\* f"TRIGGERED: {rule['name']} ({context_str})"
TriggeredLine(name, context) ==
    <<"T", "R", "I", "G", "G", "E", "R", "E", "D", ":", " ">> \o name
        \o <<" ", "(">> \o JoinItems(context, KeyOrder(context)) \o <<")">>

\* str(value) of a context value: forecast_date holds a str, every other key
\* a number.
ValueStr(key, value) == IF key = FORECAST_DATE THEN value ELSE Str(value.num)

\* f"{{{key}}}"
Placeholder(key) == <<"{">> \o key \o <<"}">>

\* A replace that stops after the first occurrence.
Replace_FirstOnly(s, old, new) ==
    IF \E i \in 1..(Len(s) - Len(old) + 1) : SubSeq(s, i, i + Len(old) - 1) = old
    THEN LET at == CHOOSE i \in 1..(Len(s) - Len(old) + 1) :
                     /\ SubSeq(s, i, i + Len(old) - 1) = old
                     /\ \A j \in 1..(i - 1) : SubSeq(s, j, j + Len(old) - 1) # old
         IN  SubSeq(s, 1, at - 1) \o new \o SubSeq(s, at + Len(old), Len(s))
    ELSE s

\* s.replace(old, new) for a non-empty `old`: every non-overlapping occurrence,
\* found from left to right, is replaced.
RECURSIVE Replace(_, _, _)
Replace(s, old, new) ==
    IF Len(s) < Len(old) THEN s
    ELSE IF SubSeq(s, 1, Len(old)) = old
    THEN new \o Replace(SubSeq(s, Len(old) + 1, Len(s)), old, new)
    ELSE <<Head(s)>> \o Replace(Tail(s), old, new)

\* The loop of _substitute_template over the remaining keys.
RECURSIVE SubstituteKeys(_, _, _)
SubstituteKeys(result_so_far, context, keys) ==
    IF keys = <<>> THEN result_so_far
    ELSE SubstituteKeys(Replace(result_so_far, Placeholder(Head(keys)),
                                ValueStr(Head(keys), context[Head(keys)])),
                        context, Tail(keys))

\* EmailAction._substitute_template
SubstituteTemplate(template, context) ==
    SubstituteKeys(template, context, KeyOrder(context))

\* email_action.send(subject=..., body=..., context=...): the call made.
SendCall(action, context) ==
    [subject |-> action.subject, body |-> action.body, context |-> context]

\* The message send builds from the call: subject and body after template
\* substitution.
Message(action, context) ==
    [subject |-> SubstituteTemplate(action.subject, context),
     body |-> SubstituteTemplate(action.body, context)]

\* The rule was not enabled: the loop went on to the next rule.
Skipped == [skipped |-> TRUE]

\* The loop body after evaluate has returned `res` for an enabled rule, in a
\* variant that dispatches the action whether or not this is a dry run.
Dispatch_IgnoresDryRun(m, rule, res, smtp_ok) ==
    IF HasRaised(res)
    THEN m
    ELSE LET context == Get(res, "context", EmptyDict)
             next == [m EXCEPT !.i = @ + 1, !.results = Append(@, res)]
         IN  IF ~res.triggered
             THEN next
             ELSE IF rule.action.type = "email"
             THEN [next EXCEPT !.alerts_triggered = @ + 1,
                               !.sent = Append(@, SendCall(rule.action, context)),
                               !.delivered =
                                   IF smtp_ok
                                   THEN Append(@, Message(rule.action, context))
                                   ELSE @]
             ELSE [next EXCEPT !.alerts_triggered = @ + 1]

\* The loop body after evaluate has returned `res` for an enabled rule: the
\* locals and effects of main afterwards. An exception raised by evaluate ends
\* the run. send hands the message to the SMTP server, which takes it
\* (smtp_ok) or fails; send catches the failure, prints an error and returns.
Dispatch(m, rule, res, smtp_ok) ==
    IF HasRaised(res)
    THEN m
    ELSE LET context == Get(res, "context", EmptyDict)
             next == [m EXCEPT !.i = @ + 1, !.results = Append(@, res)]
         IN  IF ~res.triggered
             THEN next
             ELSE IF m.dry_run
             THEN [next EXCEPT !.alerts_triggered = @ + 1,
                               !.stdout = Append(@, TriggeredLine(rule.name, context))]
             ELSE IF rule.action.type = "email"
             THEN [next EXCEPT !.alerts_triggered = @ + 1,
                               !.sent = Append(@, SendCall(rule.action, context)),
                               !.delivered =
                                   IF smtp_ok
                                   THEN Append(@, Message(rule.action, context))
                                   ELSE @]
             ELSE [next EXCEPT !.alerts_triggered = @ + 1]

\* Rules as config.yaml gives them.
EmailTo(subject) ==
    [type |-> "email", subject |-> subject, body |-> <<"L", "o", "w", " ", "{", "t", "e", "m", "p", "e", "r", "a", "t", "u", "r", "e", "_", "m", "i", "n", "}">>]

FreezeToday ==
    [type |-> "threshold", weather_condition |-> Freeze(EmptyDict)]

MainRules ==
    {\* a threshold rule, 'enabled' not given
     [name |-> <<"F", "r", "e", "e", "z", "e">>, condition |-> FreezeToday,
      action |-> EmailTo(<<"F", "r", "e", "e", "z", "e">>)],
     \* a first-occurrence rule, enabled
     [name |-> <<"F", "i", "r", "s", "t">>, enabled |-> TRUE, condition |-> FreezeAnyMonth,
      action |-> EmailTo(<<"F", "i", "r", "s", "t", " ", "f", "r", "e", "e", "z", "e">>)],
     \* a first-occurrence rule with a season of its own (November .. February)
     [name |-> <<"W", "i", "n", "t", "e", "r">>, condition |-> FreezeWinter,
      action |-> EmailTo(<<"W", "i", "n", "t", "e", "r">>)],
     \* a disabled rule
     [name |-> <<"O", "f", "f">>, enabled |-> FALSE, condition |-> FreezeToday,
      action |-> EmailTo(<<"O", "f", "f">>)],
     \* a rule whose action type the program does not know
     [name |-> <<"P", "a", "g", "e">>, enabled |-> TRUE, condition |-> FreezeToday,
      action |-> [type |-> "sms"]]}

MainConfigs == SeqsUpTo(MainRules, MaxRules)

\* The lists get_forecast returns: empty, a freezing night, a mild one.
MainForecasts == {<<>>} \cup RunForecasts

\* What weather.get_forecast() returns: None on an error, or a list.
FetchResults == {None} \cup {List(forecast_data) : forecast_data \in MainForecasts}

\* A test that takes only None for "no forecast".
NoForecast_NoneOnly(fetched) == "null" \in DOMAIN fetched

\* `not forecast_data`
NoForecast(fetched) == "null" \in DOMAIN fetched \/ fetched.list = <<>>

\* The state file a run finds: none, one an earlier run wrote, the document {}.
MainFiles == {Absent, FiredIn2024, [object |-> {}]}

\* The locals and effects of main(dry_run) when it is called: .fetches counts
\* the calls of get_forecast, .i is the position in the rule list (0 before
\* the loop), .sent holds the calls of send, .delivered the messages the SMTP
\* server took, .stdout the TRIGGERED lines, .saves counts the calls of
\* save_state; .fetched is the value get_forecast returned and .forecast_data
\* the list the rule loop works on; .run numbers the runs of the program and
\* .undelivered tells that in an earlier run a message was not taken by the
\* SMTP server.
NewRun(dry_run) ==
    [dry_run |-> dry_run, run |-> 1, undelivered |-> FALSE,
     fetches |-> 0, fetched |-> NoCall,
     forecast_data |-> <<>>, i |-> 0,
     email_action |-> FALSE, results |-> <<>>, alerts_triggered |-> 0,
     sent |-> <<>>, delivered |-> <<>>, stdout |-> <<>>, saves |-> 0]

\* main(dry_run) has been called.
InitMain ==
    /\ now = StartOfTime
    /\ alert_rules \in MainConfigs
    /\ state_file \in MainFiles
    /\ pc = "idle"
    /\ state = NoEvaluator
    /\ call = NoCall
    /\ result = NoCall
    /\ fired = NoneFired
    /\ \E dry_run \in BOOLEAN :
         main = NewRun(dry_run)
    /\ other = NoOther

\* main up to the rule loop: fetch the forecast and exit if there is none,
\* else construct the evaluator and, unless this is a dry run, the EmailAction.
MainStart ==
    /\ pc = "idle"
    /\ \E fetched \in FetchResults :
         IF NoForecast(fetched)
         THEN /\ pc' = "exited"
              /\ main' = [main EXCEPT !.fetches = @ + 1, !.fetched = fetched]
              /\ UNCHANGED <<now, alert_rules, state_file, state, call, result, fired, other>>
         ELSE /\ ConstructCall
              /\ main' = [main EXCEPT !.fetches = @ + 1,
                                      !.fetched = fetched,
                                      !.forecast_data = fetched.list,
                                      !.i = 1,
                                      !.email_action = ~main.dry_run /\ pc' = "evaluating"]

\* One pass of the rule loop.
MainRule ==
    /\ pc = "evaluating"
    /\ main.i \in DOMAIN alert_rules
    /\ LET rule == alert_rules[main.i]
       IN  IF ~Get(rule, "enabled", TRUE)
           THEN /\ main' = [main EXCEPT !.i = @ + 1, !.results = Append(@, Skipped)]
                /\ UNCHANGED <<now, alert_rules, state_file, pc, state, call, result, fired,
                               other>>
           ELSE /\ EvaluateCall(rule.condition, main.forecast_data)
                /\ \E smtp_ok \in BOOLEAN : main' = Dispatch(main, rule, result', smtp_ok)

\* The end of main in a variant that skips save_state in a dry run.
MainSave_NotInDryRun ==
    /\ main.i > Len(alert_rules)
    /\ IF main.dry_run
       THEN /\ pc = "evaluating"
            /\ pc' = "saved"
            /\ call' = NoCall
            /\ result' = NoCall
            /\ UNCHANGED <<now, alert_rules, state_file, state, fired, main, other>>
       ELSE /\ SaveStateCall
            /\ main' = [main EXCEPT !.saves = @ + 1]

\* evaluator.save_state() after the loop.
MainSave ==
    /\ main.i > Len(alert_rules)
    /\ SaveStateCall
    /\ main' = [main EXCEPT !.saves = @ + 1]

NextMain == MainStart \/ MainRule \/ MainSave

SpecMain == InitMain /\ [][NextMain]_vars

(***************************************************************************)
(* main() run again and again on one state file (a scheduled job), with     *)
(* time passing between the runs.                                           *)
(***************************************************************************)
\* The program is run at most MaxRuns times.
MaxRuns == 2

\* "Chilly night": the all-year first occurrence of tmin < 40 within two days.
\* It differs from FreezeAnyMonth in operator, value and forecast_days, and has
\* the same field and season.
ChillyAnyMonth ==
    [type |-> "first_occurrence",
     weather_condition |-> [field |-> temperature_min, operator |-> "lt", value |-> 40,
                            forecast_days |-> 2]]

FirstFreezeRule ==
    [name |-> <<"F", "i", "r", "s", "t">>, condition |-> FreezeAnyMonth,
     action |-> EmailTo(<<"F", "i", "r", "s", "t">>)]

ChillyRule ==
    [name |-> <<"C", "h", "i", "l", "l", "y">>, condition |-> ChillyAnyMonth,
     action |-> EmailTo(<<"C", "h", "i", "l", "l", "y">>)]

\* A first-occurrence rule whose action type the program does not know.
PageRule ==
    [name |-> <<"P", "a", "g", "e">>, condition |-> FreezeAnyMonth,
     action |-> [type |-> "sms"]]

\* Rule lists of the scheduled job: the two rules that share a state key, in
\* both orders, and the rule with the unknown action, alone and first.
DailyConfigs ==
    {<<FirstFreezeRule, ChillyRule>>, <<ChillyRule, FirstFreezeRule>>,
     <<PageRule>>, <<PageRule, ChillyRule>>}

\* The first run starts with no state file.
InitDaily ==
    /\ now = StartOfTime
    /\ alert_rules \in DailyConfigs
    /\ state_file = Absent
    /\ pc = "idle"
    /\ state = NoEvaluator
    /\ call = NoCall
    /\ result = NoCall
    /\ fired = NoneFired
    /\ \E dry_run \in BOOLEAN : main = NewRun(dry_run)
    /\ other = NoOther

\* The process has ended; the program is started again, in either mode.
MainAgain ==
    /\ pc \in {"saved", "exited"}
    /\ main.run < MaxRuns
    /\ pc' = "idle"
    /\ \E dry_run \in BOOLEAN :
         main' = [NewRun(dry_run) EXCEPT
                     !.run = main.run + 1,
                     !.undelivered = \/ main.undelivered
                                     \/ Len(main.delivered) < Len(main.sent)]
    /\ call' = NoCall
    /\ result' = NoCall
    /\ UNCHANGED <<now, alert_rules, state_file, state, fired, other>>

NextDaily == MainStart \/ MainRule \/ MainSave \/ MainAgain \/ TickBetweenRuns

SpecDaily == InitDaily /\ [][NextDaily]_vars

(***************************************************************************)
(* evaluate as a function of its arguments: threshold and combined          *)
(* conditions, which neither read nor write the store or the clock.         *)
(***************************************************************************)
\* The daily records of day i: the date and, for each field of `values`, one of
\* the values values[field], or no entry for the field at all.
DayRecords(i, values) ==
    {(DATE :> ForecastDate(i)) @@ r :
        r \in UNION {{x \in [fields -> UNION {values[f] : f \in fields}] :
                         \A f \in fields : x[f] \in values[f]} :
                     fields \in SUBSET DOMAIN values}}

\* The forecasts of exactly n days, of at most n days.
RECURSIVE ForecastsOfLen(_, _)
ForecastsOfLen(n, values) ==
    IF n = 0
    THEN {<<>>}
    ELSE {Append(f, r) : f \in ForecastsOfLen(n - 1, values), r \in DayRecords(n, values)}

Forecasts(n, values) == UNION {ForecastsOfLen(k, values) : k \in 0..n}

\* Minimum temperatures: missing, null, 0, at the threshold, above it.
ThresholdForecasts ==
    Forecasts(MaxLen, (temperature_min :> {None, Num(0), Num(32), Num(40)}))

\* Threshold conditions on temperature_min: every operator and an unknown one,
\* windows from -1 to one more than the longest forecast, and no window given;
\* with and without the 'type' entry.
ThresholdConditions ==
    {type @@ [weather_condition |->
                [field |-> temperature_min, operator |-> op, value |-> t] @@ days] :
        type \in {EmptyDict, [type |-> "threshold"]},
        op \in {"lt", "lte", "gt", "gte", "eq", "approx"},
        t \in {0, 32},
        days \in {EmptyDict} \cup {[forecast_days |-> d] : d \in -1..(MaxLen + 1)}}

\* Forecasts for combined conditions: a cold or a mild night, and a chance of
\* rain that is missing, low or high.
CombinedForecasts ==
    Forecasts(MaxCombinedLen,
              (temperature_min :> {Num(28), Num(40)})
                 @@ (precipitation_probability :> {Num(20), Num(80)}))

\* The threshold specs a combined condition is built from.
SubConditions ==
    {[field |-> temperature_min, operator |-> "lte", value |-> 32, forecast_days |-> 2],
     [field |-> temperature_min, operator |-> "gte", value |-> 40, forecast_days |-> 2],
     [field |-> precipitation_probability, operator |-> "gte", value |-> 80,
      forecast_days |-> 2],
     [field |-> precipitation_probability, operator |-> "gte", value |-> 80]}

CombinedConditions ==
    {[type |-> "combined", weather_conditions |-> subs] @@ mode :
        subs \in SeqsUpTo(SubConditions, MaxSubs),
        mode \in {EmptyDict, [all_must_match |-> TRUE], [all_must_match |-> FALSE]}}

\* The seasons of a first_occurrence condition: every pair of months, and
\* one or both bounds left to their defaults.
PureSeasons ==
    {EmptyDict}
        \cup {[season_start_month |-> s] : s \in 1..12}
        \cup {[season_end_month |-> e] : e \in 1..12}
        \cup {[season_start_month |-> s, season_end_month |-> e] : s \in 1..12, e \in 1..12}

SeasonalConditions ==
    {[type |-> "first_occurrence", weather_condition |-> Freeze(EmptyDict)] @@ season :
        season \in PureSeasons}

\* Conditions whose type is none of the three the evaluator knows.
UnknownConditions ==
    {[type |-> type, weather_condition |-> Freeze(EmptyDict)] :
        type \in {"bogus", "Threshold"}}

\* The stores such a call can find: empty, or with the condition's key
\* recorded in the clock's year or the year before.
PureStores(key, clock) ==
    {EmptyState}
        \cup {[occurrences |->
                 (key :> [year |-> year,
                          date |-> IsoDate(year, 1, 15),
                          forecast_date |-> ForecastDate(1)])] :
              year \in {clock.year - 1, clock.year}}

\* An evaluator about to be called with some condition and forecast: a
\* threshold or combined condition on a fresh evaluator, or a first_occurrence
\* or unknown condition in some month on some store.
InitPure ==
    /\ alert_rules = <<>>
    /\ state_file = Absent
    /\ pc = "evaluating"
    /\ \/ /\ now = StartOfTime
          /\ state = EmptyState
          /\ \E condition \in ThresholdConditions \cup CombinedConditions :
               \E forecast_data \in IF condition \in ThresholdConditions
                                    THEN ThresholdForecasts ELSE CombinedForecasts :
                  call = [condition |-> condition, forecast_data |-> forecast_data,
                          before |-> EmptyState]
       \/ \E condition \in SeasonalConditions \cup UnknownConditions,
             month \in 1..12, forecast_data \in RunForecasts :
               /\ now = [StartOfTime EXCEPT !.month = month]
               /\ state \in PureStores(KeyOf(condition), now)
               /\ call = [condition |-> condition, forecast_data |-> forecast_data,
                          before |-> state]
    /\ result = NoCall
    /\ fired = NoneFired
    /\ main = NoMain
    /\ other = NoOther

\* The call is made.
EvaluatePending ==
    /\ result = NoCall
    /\ Evaluate(call.condition, call.forecast_data)

NextPure == EvaluatePending

SpecPure == InitPure /\ [][NextPure]_vars

(***************************************************************************)
(* The state key of first_occurrence conditions on any field: one call of   *)
(* evaluate on a fresh evaluator, in the first month of the condition's     *)
(* season, on a forecast whose record for today matches the threshold.      *)
(***************************************************************************)
\* A field name has at most MaxFieldLen characters.
MaxFieldLen == 2

\* The characters of a field name: a letter, the underscore, a digit.
FieldChars == {"t", "_", "1"}

KeyFields == SeqsUpTo(FieldChars, MaxFieldLen)

\* Thresholds that today's value 28 meets, differing in operator, value and
\* window.
KeyThresholds ==
    {[operator |-> "lte", value |-> 32],
     [operator |-> "lt", value |-> 40, forecast_days |-> 2]}

\* first_occurrence conditions on every field name and every season.
KeyConditions ==
    {[type |-> "first_occurrence", weather_condition |-> [field |-> field] @@ threshold]
        @@ season :
        field \in KeyFields, threshold \in KeyThresholds, season \in PureSeasons}

\* Today's record with the value 28 for `field`.
FieldForecast(field) == <<(DATE :> ForecastDate(1)) @@ (field :> Num(28))>>

InitKeys ==
    /\ alert_rules = <<>>
    /\ state_file = Absent
    /\ pc = "evaluating"
    /\ state = EmptyState
    /\ \E condition \in KeyConditions :
         /\ now = [StartOfTime EXCEPT !.month = SeasonStart(condition)]
         /\ call = [condition |-> condition,
                    forecast_data |-> FieldForecast(condition.weather_condition.field),
                    before |-> EmptyState]
    /\ result = NoCall
    /\ fired = NoneFired
    /\ main = NoMain
    /\ other = NoOther

SpecKeys == InitKeys /\ [][NextPure]_vars

(***************************************************************************)
(* EmailAction._substitute_template as a function of its arguments.         *)
(***************************************************************************)
\* A template is made of at most MaxTokens pieces.
MaxTokens == 3

\* The pieces of a template: placeholders of the two context keys, a
\* placeholder no context names, a letter, and single braces.
wind == <<"w", "i", "n", "d">>
TemplateTokens ==
    {Placeholder(temperature_min), Placeholder(FORECAST_DATE), Placeholder(wind),
     <<"x">>, <<"{">>, <<"}">>}

RECURSIVE Flatten(_)
Flatten(tokens) == IF tokens = <<>> THEN <<>> ELSE Head(tokens) \o Flatten(Tail(tokens))

\* The contexts: empty, the context of a threshold match, one key only.
TemplateContexts ==
    {EmptyDict,
     MatchContext(TempForecast(<<28>>)[1], temperature_min, Num(28)),
     (temperature_min :> Num(0))}

\* _substitute_template is about to be called.
InitTemplate ==
    /\ now = StartOfTime
    /\ alert_rules = <<>>
    /\ state_file = Absent
    /\ pc = "idle"
    /\ state = NoEvaluator
    /\ \E tokens \in SeqsUpTo(TemplateTokens, MaxTokens), context \in TemplateContexts :
         call = [template |-> Flatten(tokens), tokens |-> tokens, context |-> context]
    /\ result = NoCall
    /\ fired = NoneFired
    /\ main = NoMain
    /\ other = NoOther

\* The call is made.
SubstitutePending ==
    /\ result = NoCall
    /\ result' = [text |-> SubstituteTemplate(call.template, call.context)]
    /\ UNCHANGED <<now, alert_rules, state_file, pc, state, call, fired, main, other>>

NextTemplate == SubstitutePending

SpecTemplate == InitTemplate /\ [][NextTemplate]_vars

(***************************************************************************)
(* evaluate on a store that already holds records: one call of every kind   *)
(* of condition, in every month of 2024.                                    *)
(***************************************************************************)
\* A record of a firing on 15 January of `year`.
FiredOn(year) ==
    [year |-> year, date |-> IsoDate(year, 1, 15), forecast_date |-> ForecastDate(1)]

\* The stores over the keys of the all-year rule and of the winter rule: each
\* key has no record, a record of last year, or a record of this year.
FrameStores ==
    {[occurrences |-> any @@ winter] :
        any \in {EmptyDict} \cup {(KeyOf(FreezeAnyMonth) :> FiredOn(y)) : y \in {2023, 2024}},
        winter \in {EmptyDict} \cup {(KeyOf(FreezeWinter) :> FiredOn(y)) : y \in {2023, 2024}}}

\* One condition of every kind: threshold (with and without the type entry),
\* combined (all and any), unknown types, and the three seasonal rules.
FrameConditions ==
    {FreezeToday, [weather_condition |-> Freeze(EmptyDict)],
     [type |-> "combined",
      weather_conditions |-> <<Freeze(EmptyDict), Freeze([forecast_days |-> 2])>>],
     [type |-> "combined", all_must_match |-> FALSE,
      weather_conditions |-> <<Freeze(EmptyDict)>>]}
        \cup UnknownConditions \cup SeasonConditions

InitFrame ==
    /\ alert_rules = <<>>
    /\ state_file = Absent
    /\ pc = "evaluating"
    /\ \E month \in 1..12 : now = [StartOfTime EXCEPT !.month = month]
    /\ state \in FrameStores
    /\ \E condition \in FrameConditions, forecast_data \in RunForecasts :
         call = [condition |-> condition, forecast_data |-> forecast_data,
                 before |-> state]
    /\ result = NoCall
    /\ fired = NoneFired
    /\ main = NoMain
    /\ other = NoOther

SpecFrame == InitFrame /\ [][NextPure]_vars

(***************************************************************************)
(* Reference readings used by the properties below.                        *)
(***************************************************************************)
\* The five comparison relations on integers.
Satisfies(v, operator, t) ==
    \/ operator = "lt" /\ v < t
    \/ operator = "lte" /\ v <= t
    \/ operator = "gt" /\ v > t
    \/ operator = "gte" /\ v >= t
    \/ operator = "eq" /\ v = t

\* The 1-based positions, among the first `days` records of the forecast, of
\* the records whose value for the monitored field is present, not null and
\* satisfies the comparator.
MatchingDays(weather_cond, forecast_data, days) ==
    {i \in 1..Len(forecast_data) :
        /\ i <= days
        /\ weather_cond.field \in DOMAIN forecast_data[i]
        /\ forecast_data[i][weather_cond.field] # None
        /\ Satisfies(forecast_data[i][weather_cond.field].num,
                     weather_cond.operator, weather_cond.value)}

ForecastDays(weather_cond) ==
    IF "forecast_days" \in DOMAIN weather_cond THEN weather_cond.forecast_days ELSE 1

\* The embedded threshold of the condition matches the forecast.
ThresholdMatches(condition, forecast_data) ==
    MatchingDays(condition.weather_condition, forecast_data,
                 ForecastDays(condition.weather_condition)) # {}

\* Month m lies in the season start .. end (both inclusive, wrapping the year
\* end when start > end).
InWindow(m, season_start, season_end) ==
    IF season_start <= season_end
    THEN m \in season_start..season_end
    ELSE m \in (season_start..12) \cup (1..season_end)

\* s is the ISO form YYYY-MM-DD of the clock's date.
IsDateOf(s, clock) ==
    /\ Len(s) = 10
    /\ s[5] = "-" /\ s[8] = "-"
    /\ ParseInt(SubSeq(s, 1, 4)) = clock.year
    /\ ParseInt(SubSeq(s, 6, 7)) = clock.month
    /\ ParseInt(SubSeq(s, 9, 10)) = clock.day

\* The last call evaluated a first_occurrence condition.
SeasonCall == call # NoCall /\ IsFirstOccurrence(call.condition)

\* The store `st` holds a record for key k whose year is y.
HasFired(st, k, y) == k \in DOMAIN st.occurrences /\ st.occurrences[k].year = y

\* The last call was made in season.
CallInSeason ==
    InWindow(now.month, SeasonStart(call.condition), SeasonEnd(call.condition))

(***************************************************************************)
(* First occurrence: once per year, re-arming, the record written.         *)
(***************************************************************************)
\* A step of evaluate on a first_occurrence condition whose key the store
\* already holds with the current year returns triggered=false.
QuietOnceFired ==
    (/\ call' # NoCall
     /\ now' = now
     /\ IsFirstOccurrence(call'.condition)
     /\ HasFired(state, KeyOf(call'.condition), now.year))
        => ~result'.triggered

\* After a step no key has returned triggered=true twice in the calendar year.
FiredAtMostOncePerYear == \A k \in SeasonKeys : fired'[k].year <= 1

\* C1: for one evaluator instance and a fixed state key, at most one evaluate
\* call made in a calendar year returns triggered=true, and once the store
\* holds the key's record for the current year every later call in that year
\* returns triggered=false, whatever the forecast.
C1_OncePerYear == [][FiredAtMostOncePerYear /\ QuietOnceFired]_vars

\* A call made in season, on a forecast that meets the threshold, after the key
\* has fired this year: it returned triggered=false.
C1_Witness ==
    /\ SeasonCall
    /\ CallInSeason
    /\ ThresholdMatches(call.condition, call.forecast_data)
    /\ HasFired(call.before, KeyOf(call.condition), now.year)
    /\ fired[KeyOf(call.condition)].year = 1
    /\ ~result.triggered

\* C2: over one contiguous in-season period (for a wrapping season, November
\* of one year through February of the next) at most one evaluate call returns
\* triggered=true for a state key.
C2_OncePerSeason == \A k \in SeasonKeys : fired[k].season <= 1

\* C3: an in-season call whose threshold matches, made when the key's record
\* has a year other than the current one, returns triggered=true and
\* overwrites the record with the current year.
C3_Rearms ==
    (/\ SeasonCall
     /\ CallInSeason
     /\ ThresholdMatches(call.condition, call.forecast_data)
     /\ KeyOf(call.condition) \in DOMAIN call.before.occurrences
     /\ call.before.occurrences[KeyOf(call.condition)].year # now.year)
        => /\ result.triggered
           /\ HasFired(state, KeyOf(call.condition), now.year)

\* A call that found last year's record and fired again.
C3_Witness ==
    /\ SeasonCall
    /\ KeyOf(call.condition) \in DOMAIN call.before.occurrences
    /\ call.before.occurrences[KeyOf(call.condition)].year = now.year - 1
    /\ result.triggered
    /\ state.occurrences[KeyOf(call.condition)].year = now.year

\* C4: an in-season call that finds no record of the current year and whose
\* threshold triggers writes the record {year: current year, date: today,
\* forecast_date: date of the matched record} under the key, and returns
\* exactly the threshold evaluation's result.
C4_RecordWritten ==
    (/\ SeasonCall
     /\ CallInSeason
     /\ ~HasFired(call.before, KeyOf(call.condition), now.year)
     /\ ThresholdMatches(call.condition, call.forecast_data))
        => LET k == KeyOf(call.condition)
               days == MatchingDays(call.condition.weather_condition, call.forecast_data,
                                    ForecastDays(call.condition.weather_condition))
               matched == call.forecast_data[Min(days)]
           IN  /\ k \in DOMAIN state.occurrences
               /\ DOMAIN state.occurrences[k] = {"year", "date", "forecast_date"}
               /\ state.occurrences[k].year = now.year
               /\ IsDateOf(state.occurrences[k].date, now)
               /\ state.occurrences[k].forecast_date = matched[DATE]
               /\ result = EvaluateThreshold(call.condition, call.forecast_data)
               /\ result.triggered
               /\ "context" \in DOMAIN result

\* A call that overwrote an older record, matching on the second day.
C4_Witness ==
    /\ SeasonCall
    /\ result.triggered
    /\ KeyOf(call.condition) \in DOMAIN call.before.occurrences
    /\ state.occurrences[KeyOf(call.condition)] # call.before.occurrences[KeyOf(call.condition)]
    /\ state.occurrences[KeyOf(call.condition)].forecast_date = ForecastDate(2)

\* C5: out of season a first_occurrence evaluation returns triggered=false and
\* leaves the store unchanged, for every forecast and store content.
C5_OutOfSeason ==
    (SeasonCall /\ ~CallInSeason)
        => /\ ~result.triggered
           /\ state = call.before

\* An out-of-season call on a forecast whose first record meets the threshold,
\* with a record of an earlier year in the store.
C5_Witness ==
    /\ SeasonCall
    /\ ~CallInSeason
    /\ 1 \in MatchingDays(call.condition.weather_condition, call.forecast_data, 1)
    /\ KeyOf(call.condition) \in DOMAIN call.before.occurrences
    /\ call.before.occurrences[KeyOf(call.condition)].year # now.year
    /\ ~result.triggered

(***************************************************************************)
(* Persistence across process runs.                                        *)
(***************************************************************************)
\* The run that starts after a run has saved loads the store that run held.
ReloadsWhatWasSaved ==
    (pc = "saved" /\ pc' = "evaluating") => state' = state

\* After a step no key has returned triggered=true twice in the calendar year,
\* whichever runs the calls were made in.
FiredOnceAcrossRuns == \A k \in SeasonKeys : fired'[k].year <= 1

\* C6: across sequential runs on one state file, each saving before the next
\* loads, the store a run loads equals the store the previous run saved, and a
\* key that has fired in a run does not fire in a later run of the same year.
C6_PersistsAcrossRuns == [][FiredOnceAcrossRuns /\ ReloadsWhatWasSaved]_vars

\* A later run, in season and on a freezing forecast, found the record an
\* earlier run of this year had saved, and did not fire.
C6_Witness ==
    /\ SeasonCall
    /\ CallInSeason
    /\ ThresholdMatches(call.condition, call.forecast_data)
    /\ fired[KeyOf(call.condition)].year = 1
    /\ fired[KeyOf(call.condition)].run = 0
    /\ HasFired(call.before, KeyOf(call.condition), now.year)
    /\ state_file = JsonDump(call.before)
    /\ ~result.triggered

(***************************************************************************)
(* Threshold evaluation.                                                   *)
(***************************************************************************)
ConditionType(condition) ==
    IF "type" \in DOMAIN condition THEN condition.type ELSE "threshold"

\* The last call evaluated a threshold condition and has returned.
ThresholdCall ==
    call # NoCall /\ result # NoCall /\ ConditionType(call.condition) = "threshold"

\* The 1-based position of the forecast record the result reports.
ReportedDay ==
    CHOOSE i \in 1..Len(call.forecast_data) :
        call.forecast_data[i][DATE] = result.context[FORECAST_DATE]

\* C7: with a window of forecast_days >= 0 records (1 when absent), threshold
\* evaluation triggers iff some record among the first forecast_days records
\* has a non-null value for the field that satisfies the comparator, and then
\* the context is {forecast_date: date of the lowest-index such record,
\* field: that record's value}.
C7_EarliestMatch ==
    (ThresholdCall /\ ForecastDays(call.condition.weather_condition) >= 0)
        => LET weather_cond == call.condition.weather_condition
               days == MatchingDays(weather_cond, call.forecast_data,
                                    ForecastDays(weather_cond))
           IN  /\ result.triggered <=> days # {}
               /\ days # {} =>
                    /\ DOMAIN result.context = {FORECAST_DATE, weather_cond.field}
                    /\ result.context[FORECAST_DATE] = call.forecast_data[Min(days)][DATE]
                    /\ result.context[weather_cond.field]
                         = call.forecast_data[Min(days)][weather_cond.field]

\* The first record of the window matches weakly (32 <= 32), a later one more
\* strongly (0 <= 32): the first is reported.
C7_Witness ==
    /\ ThresholdCall
    /\ call.condition.weather_condition.operator = "lte"
    /\ call.condition.weather_condition.value = 32
    /\ ForecastDays(call.condition.weather_condition) = 3
    /\ Len(call.forecast_data) = 3
    /\ GetOrNone(call.forecast_data[1], temperature_min) = None
    /\ GetOrNone(call.forecast_data[2], temperature_min) = Num(32)
    /\ GetOrNone(call.forecast_data[3], temperature_min) = Num(0)
    /\ result.triggered
    /\ result.context[FORECAST_DATE] = ForecastDate(2)

\* C8: for every integer forecast_days (1 when absent, 0 and negative values
\* included) threshold evaluation inspects at most max(forecast_days, 0)
\* records, and a record at a 1-based position greater than forecast_days
\* never causes a trigger.
C8_WindowBound ==
    ThresholdCall
        => LET forecast_days == ForecastDays(call.condition.weather_condition)
           IN  /\ ThresholdRun(call.condition, call.forecast_data).inspected
                    <= Max2(forecast_days, 0)
               /\ result.triggered => ReportedDay <= forecast_days

(***************************************************************************)
(* Combined evaluation.                                                    *)
(***************************************************************************)
\* The last call evaluated a combined condition and has returned.
CombinedCall ==
    call # NoCall /\ result # NoCall /\ ConditionType(call.condition) = "combined"

\* The result of evaluating sub-condition i of the last call on its own.
SubResult(i) ==
    EvaluateThreshold([type |-> "threshold",
                       weather_condition |-> call.condition.weather_conditions[i]],
                      call.forecast_data)

\* The positions of the sub-conditions that trigger on their own.
MatchingSubs ==
    {i \in 1..Len(call.condition.weather_conditions) : SubResult(i).triggered}

Max(S) == CHOOSE x \in S : \A y \in S : x >= y

\* C9: a combined condition triggers iff, with all_must_match true (the
\* default), every sub-condition triggers on its own, and otherwise iff at
\* least one does; the empty list included.
C9_AllOrAny ==
    CombinedCall
        => LET total == Len(call.condition.weather_conditions)
               all_must_match == IF "all_must_match" \in DOMAIN call.condition
                                 THEN call.condition.all_must_match ELSE TRUE
           IN  result.triggered <=>
                  IF all_must_match
                  THEN Cardinality(MatchingSubs) = total
                  ELSE Cardinality(MatchingSubs) > 0

\* all_must_match absent, two sub-conditions that match on different days.
C9_Witness ==
    /\ CombinedCall
    /\ "all_must_match" \notin DOMAIN call.condition
    /\ MatchingSubs = {1, 2}
    /\ SubResult(1).context[FORECAST_DATE] # SubResult(2).context[FORECAST_DATE]
    /\ result.triggered

\* C10: the context of a triggered combined condition holds exactly the keys
\* of the contexts of its matching sub-conditions, each with the value of the
\* last matching sub-condition in list order that has the key; forecast_date
\* is the matched date of the last matching sub-condition.
C10_LastWriteWins ==
    (CombinedCall /\ result.triggered)
        => /\ DOMAIN result.context = UNION {DOMAIN SubResult(i).context : i \in MatchingSubs}
           /\ \A key \in DOMAIN result.context :
                 result.context[key] =
                    SubResult(Max({i \in MatchingSubs : key \in DOMAIN SubResult(i).context}))
                        .context[key]
           /\ MatchingSubs # {} =>
                 result.context[FORECAST_DATE] = SubResult(Max(MatchingSubs)).context[FORECAST_DATE]

\* Two sub-conditions on temperature_min match on different days with
\* different values: the value and the date of the second are kept.
C10_Witness ==
    /\ CombinedCall
    /\ result.triggered
    /\ MatchingSubs = {1, 2}
    /\ call.condition.weather_conditions[1].field = temperature_min
    /\ call.condition.weather_conditions[2].field = temperature_min
    /\ SubResult(1).context[temperature_min] # SubResult(2).context[temperature_min]
    /\ SubResult(1).context[FORECAST_DATE] # SubResult(2).context[FORECAST_DATE]
    /\ result.context[temperature_min] = SubResult(2).context[temperature_min]
    /\ result.context[FORECAST_DATE] = SubResult(2).context[FORECAST_DATE]

(***************************************************************************)
(* Loading the state file.                                                 *)
(***************************************************************************)
\* The constructor has run and nothing else has happened since.
Constructed == pc \in {"evaluating", "crashed"} /\ call = NoCall

\* C11: constructing an evaluator when the state file is absent, cannot be
\* opened, or holds something that is not parseable as JSON (text that is
\* not JSON, bytes that are not text) never raises and yields the empty
\* store {occurrences: {}}.
C11_LoadNeverRaises ==
    (Constructed /\ state_file \in {Absent, Unreadable, Corrupt, Undecodable})
        => /\ pc = "evaluating"
           /\ state = EmptyState

\* C12: for every well-formed JSON document that is not a store, loading
\* behaves as an empty store: no evaluate call raises, and the first call
\* after the load returns what it returns on the empty store.
C12_MalformedNeverFatal ==
    (call # NoCall /\ state_file \in MalformedDocuments)
        => /\ ~HasRaised(result)
           /\ call.before = LoadState(state_file)
                => result = EvaluateCondition(call.condition, call.forecast_data,
                                              EmptyState, now).result

(***************************************************************************)
(* Runs of main().                                                         *)
(***************************************************************************)
\* The run is over: save_state has returned, or an exception ended it.
RunEnded == pc \in {"saved", "crashed"}

\* C13: in every run of main that gets a non-empty forecast, save_state is
\* called exactly once, and only after every rule has been processed; a run
\* that has ended has made the call.
C13_SavedOncePerRun ==
    (main.i >= 1)
        => /\ main.saves <= 1
           /\ main.saves = 1 => main.i > Len(alert_rules)
           /\ RunEnded => main.saves = 1

\* The positions of the rules processed so far whose evaluation triggered.
TriggeredRules ==
    {i \in DOMAIN main.results :
        "triggered" \in DOMAIN main.results[i] /\ main.results[i].triggered}

\* The k-th of them in list order.
NthTriggered(k) ==
    CHOOSE i \in TriggeredRules : Cardinality({j \in TriggeredRules : j <= i}) = k

\* `sub` occurs in `line`.
Contains(line, sub) ==
    \E at \in 1..(Len(line) - Len(sub) + 1) : SubSeq(line, at, at + Len(sub) - 1) = sub

\* The line starts with "TRIGGERED: <name> (" and shows every entry of the
\* context as key=value.
NamesRuleAndContext(line, name, context) ==
    LET start == <<"T", "R", "I", "G", "G", "E", "R", "E", "D", ":", " ">> \o name \o <<" ", "(">>
    IN  /\ Len(line) >= Len(start)
        /\ SubSeq(line, 1, Len(start)) = start
        /\ \A key \in DOMAIN context :
              Contains(line, key \o <<"=">> \o
                             (IF key = FORECAST_DATE THEN context[key]
                              ELSE Str(context[key].num)))

\* C14: in a dry run no EmailAction is constructed and no email is sent, and
\* stdout holds exactly one TRIGGERED line per rule processed so far whose
\* evaluation triggered, in list order, each naming its rule and context; a
\* rule that is disabled or does not trigger adds none.
C14_DryRunOnlyPrints ==
    (main # NoMain /\ main.dry_run)
        => /\ ~main.email_action
           /\ main.sent = <<>>
           /\ Len(main.stdout) = Cardinality(TriggeredRules)
           /\ \A k \in DOMAIN main.stdout :
                 NamesRuleAndContext(main.stdout[k],
                                     alert_rules[NthTriggered(k)].name,
                                     main.results[NthTriggered(k)].context)

\* A finished dry run over two enabled rules: the first triggered, the second
\* (a first occurrence already recorded for this year) did not.
C14_Witness ==
    /\ main # NoMain
    /\ main.dry_run
    /\ pc = "saved"
    /\ Len(main.results) = 2
    /\ TriggeredRules = {1}
    /\ main.results[2] = [triggered |-> FALSE]
    /\ Len(main.stdout) = 1
    /\ main.alerts_triggered = 1

(***************************************************************************)
(* The comparator, the season test, missing values, the shape of results.  *)
(***************************************************************************)
\* The last call has returned a value.
Returned == call # NoCall /\ result # NoCall /\ ~HasRaised(result)

\* The forecast record has no usable value for the field.
Missing(day_data, field) == field \notin DOMAIN day_data \/ day_data[field] = None

\* C15: for a numeric value v and threshold t the comparator is < for lt, <=
\* for lte, > for gt, >= for gte and = for eq, so a threshold call whose first
\* record is in the window and has the value v reports that record iff the
\* relation holds; with any other operator the call never triggers.
C15_ComparatorRelations ==
    ThresholdCall
        => LET weather_cond == call.condition.weather_condition
               first == call.forecast_data[1]
           IN  /\ (/\ Len(call.forecast_data) >= 1
                   /\ ForecastDays(weather_cond) >= 1
                   /\ ~Missing(first, weather_cond.field))
                     => ((result.triggered /\ result.context[FORECAST_DATE] = first[DATE])
                           <=> Satisfies(first[weather_cond.field].num,
                                         weather_cond.operator, weather_cond.value))
               /\ weather_cond.operator \notin {"lt", "lte", "gt", "gte", "eq"}
                     => result = [triggered |-> FALSE]

\* A value equal to the threshold under 'lte': the first record is reported.
C15_Witness ==
    /\ ThresholdCall
    /\ call.condition.weather_condition.operator = "lte"
    /\ Len(call.forecast_data) >= 1
    /\ GetOrNone(call.forecast_data[1], temperature_min)
          = Num(call.condition.weather_condition.value)
    /\ result.triggered
    /\ result.context[temperature_min] = Num(call.condition.weather_condition.value)

\* C16: for months m, s, e in 1..12 the season test is s <= m <= e when
\* s <= e and (m >= s or m <= e) when s > e, and the months s and e are in
\* season: a first_occurrence call whose threshold matches and whose key has
\* no record of the current year triggers exactly in those months.
C16_SeasonMembership ==
    (/\ SeasonCall
     /\ Returned
     /\ ThresholdMatches(call.condition, call.forecast_data)
     /\ ~HasFired(call.before, KeyOf(call.condition), now.year))
        => LET m == now.month
               s == SeasonStart(call.condition)
               e == SeasonEnd(call.condition)
           IN  /\ result.triggered <=>
                     (IF s <= e THEN s <= m /\ m <= e ELSE m >= s \/ m <= e)
               /\ (m = s \/ m = e) => result.triggered

\* The last month (February) of a season that wraps the year end.
C16_Witness ==
    /\ SeasonCall
    /\ Returned
    /\ SeasonStart(call.condition) = 11
    /\ SeasonEnd(call.condition) = 2
    /\ now.month = 2
    /\ result.triggered

\* C17: a record whose field is absent or null is skipped and does not stop
\* the scan: with only such records in the window (or no records) the call
\* does not trigger; a matching record preceded only by such records is
\* reported; and a value of 0 that satisfies the comparator is reported like
\* any other value.
C17_MissingSkipped ==
    (ThresholdCall /\ ForecastDays(call.condition.weather_condition) >= 0)
        => LET weather_cond == call.condition.weather_condition
               field == weather_cond.field
               forecast_data == call.forecast_data
               days == ForecastDays(weather_cond)
               window == {i \in 1..Len(forecast_data) : i <= days}
               matching == MatchingDays(weather_cond, forecast_data, days)
           IN  /\ (\A i \in window : Missing(forecast_data[i], field))
                     => result = [triggered |-> FALSE]
               /\ \A j \in matching :
                     (\A i \in 1..(j - 1) : Missing(forecast_data[i], field))
                        => /\ result.triggered
                           /\ result.context[FORECAST_DATE] = forecast_data[j][DATE]
               /\ \A j \in matching :
                     (/\ forecast_data[j][field] = Num(0)
                      /\ \A i \in 1..(j - 1) : i \notin matching)
                        => /\ result.triggered
                           /\ result.context[field] = Num(0)
                           /\ result.context[FORECAST_DATE] = forecast_data[j][DATE]

\* The field is absent from the first record and null in the second; the
\* third holds 0, which is below the threshold: the third is reported.
C17_Witness ==
    /\ ThresholdCall
    /\ Len(call.forecast_data) = 3
    /\ temperature_min \notin DOMAIN call.forecast_data[1]
    /\ temperature_min \in DOMAIN call.forecast_data[2]
    /\ call.forecast_data[2][temperature_min] = None
    /\ GetOrNone(call.forecast_data[3], temperature_min) = Num(0)
    /\ result.triggered
    /\ result.context[temperature_min] = Num(0)
    /\ result.context[FORECAST_DATE] = ForecastDate(3)

\* C18: whatever the condition kind, the forecast and the store, the value
\* evaluate returns has a context entry iff its triggered is true.
C18_ContextIffTriggered ==
    Returned => ("context" \in DOMAIN result <=> result.triggered)

\* A combined condition with no sub-conditions: it triggers, and its result
\* has a context (the empty dict).
C18_Witness ==
    /\ CombinedCall
    /\ call.condition.weather_conditions = <<>>
    /\ result.triggered
    /\ "context" \in DOMAIN result
    /\ DOMAIN result.context = {}

\* The positions of the forecast records that satisfy the comparator of a
\* threshold spec.
Matched(weather_cond) ==
    MatchingDays(weather_cond, call.forecast_data, Len(call.forecast_data))

\* The positions of the forecast records that satisfy some threshold spec of
\* the last call's condition.
MatchedByCall ==
    IF ConditionType(call.condition) = "combined"
    THEN UNION {Matched(call.condition.weather_conditions[i]) :
                   i \in DOMAIN call.condition.weather_conditions}
    ELSE Matched(call.condition.weather_condition)

\* C19: every result with triggered=true has a context with a forecast_date
\* entry, and that entry is the date of a forecast record that matched.
C19_ForecastDateOfMatch ==
    (Returned /\ result.triggered)
        => /\ FORECAST_DATE \in DOMAIN result.context
           /\ \E i \in MatchedByCall :
                 call.forecast_data[i][DATE] = result.context[FORECAST_DATE]

\* C20: evaluate on a condition whose type is none of threshold,
\* first_occurrence, combined returns triggered=false and leaves the store as
\* it was; a condition with no type is evaluated as a threshold condition.
C20_UnknownType ==
    Returned
        => /\ ConditionType(call.condition) \notin {"threshold", "first_occurrence", "combined"}
                 => /\ result = [triggered |-> FALSE]
                    /\ state = call.before
           /\ ("type" \notin DOMAIN call.condition
                  /\ ForecastDays(call.condition.weather_condition) >= 0)
                 => /\ result.triggered <=> ThresholdMatches(call.condition, call.forecast_data)
                    /\ state = call.before

\* A condition of type "bogus" whose threshold spec the forecast meets, on a
\* store that holds a record: not triggered, store unchanged.
C20_Witness ==
    /\ Returned
    /\ ConditionType(call.condition) = "bogus"
    /\ ThresholdMatches(call.condition, call.forecast_data)
    /\ call.before # EmptyState
    /\ result = [triggered |-> FALSE]
    /\ state = call.before


(***************************************************************************)
(* C21: the state key determines field and season                           *)
(***************************************************************************)
\* The last position of the character ch in s, or 0.
LastIndexOf(s, ch) == Max({0} \cup {i \in DOMAIN s : s[i] = ch})

\* The month a run of decimal digits denotes, or 0 for any other text.
MonthOf(s) ==
    IF s # <<>> /\ \A i \in DOMAIN s : s[i] \in {Digit(n) : n \in 0..9}
    THEN ParseInt(s)
    ELSE 0

\* A key read from the right: the text after the last underscore is the end
\* month, the text between the two last underscores the start month, and what
\* lies between "first_" and the start month is the field.
ReadKey(key) ==
    LET end_at == LastIndexOf(key, "_")
        head == SubSeq(key, 1, end_at - 1)
        start_at == LastIndexOf(head, "_")
    IN  [field |-> SubSeq(head, 7, start_at - 1),
         season_start |-> MonthOf(SubSeq(head, start_at + 1, Len(head))),
         season_end |-> MonthOf(SubSeq(key, end_at + 1, Len(key)))]

\* The three values the key of a condition is built from.
KeyParts(condition) ==
    [field |-> condition.weather_condition.field,
     season_start |-> SeasonStart(condition),
     season_end |-> SeasonEnd(condition)]

\* C21: the state key of a first_occurrence condition is a function of its
\* field, season start month and season end month only, and the three can be
\* read back from the key, field names holding underscores and digits
\* included: so two conditions get the same key exactly when they agree on all
\* three. The record a triggered call writes is stored under that key.
C21_KeyDeterminesParts ==
    SeasonCall =>
        /\ KeyOf(call.condition)
              = StateKey(KeyParts(call.condition).field,
                         KeyParts(call.condition).season_start,
                         KeyParts(call.condition).season_end)
        /\ ReadKey(KeyOf(call.condition)) = KeyParts(call.condition)
        /\ result # NoCall =>
              /\ result.triggered
              /\ \A k \in DOMAIN state.occurrences : ReadKey(k) = KeyParts(call.condition)
              /\ Cardinality(DOMAIN state.occurrences) = 1

\* A field name made of an underscore and a digit, in the season 11 .. 1: the
\* call has triggered and written its record.
C21_Witness ==
    /\ SeasonCall
    /\ result # NoCall
    /\ result.triggered
    /\ call.condition.weather_condition.field = <<"_", "1">>
    /\ SeasonStart(call.condition) = 11
    /\ SeasonEnd(call.condition) = 1
    /\ "forecast_days" \in DOMAIN call.condition.weather_condition
    /\ KeyOf(call.condition) \in DOMAIN state.occurrences


(***************************************************************************)
(* C22: a failed save                                                       *)
(***************************************************************************)
\* save_state has returned after printing its warning.
SaveFailed == pc = "saved" /\ "warning" \in DOMAIN result

\* C22: a write failure in save_state is reported as a warning and does not
\* raise; the in-memory store is as it was, and the document persisted before
\* the failed save is what a later run loads.
C22_FailedSaveKeepsDocument ==
    SaveFailed => LoadState(state_file) = LoadState(result.file_before)


(***************************************************************************)
(* C23: template substitution                                               *)
(***************************************************************************)
\* One piece of a template after substitution: the placeholder of a context
\* key becomes the string form of the key's value, any other piece stays.
Substituted(token, context) ==
    IF \E key \in DOMAIN context : token = Placeholder(key)
    THEN LET key == CHOOSE k \in DOMAIN context : token = Placeholder(k)
         IN  ValueStr(key, context[key])
    ELSE token

\* C23: template substitution replaces every occurrence of {key}, for each
\* key of the context, with the string form of the key's value, repeated
\* placeholders included; a placeholder whose name is not a context key stays
\* verbatim; with an empty context the template is returned unchanged.
C23_TemplateSubstitution ==
    (call # NoCall /\ result # NoCall) =>
        /\ result.text
              = Flatten([i \in DOMAIN call.tokens |->
                           Substituted(call.tokens[i], call.context)])
        /\ call.context = EmptyDict => result.text = call.template

\* "{temperature_min}{wind}{temperature_min}" with temperature_min = 28 has
\* become "28{wind}28".
C23_Witness ==
    /\ call # NoCall
    /\ result # NoCall
    /\ call.tokens = <<Placeholder(temperature_min), Placeholder(wind),
                       Placeholder(temperature_min)>>
    /\ temperature_min \in DOMAIN call.context
    /\ call.context[temperature_min] = Num(28)
    /\ result.text = <<"2", "8">> \o Placeholder(wind) \o <<"2", "8">>


(***************************************************************************)
(* C27: no forecast                                                         *)
(***************************************************************************)
\* C27: when the forecast source returns null or an empty sequence, main
\* exits with status 1 before the evaluator is constructed: no rule is
\* evaluated, no email is sent, save_state is not called and the state file
\* is as it was; any other forecast lets the run go on. The fetch is made
\* exactly once per run.
C27_NoForecastExits ==
    [][(main'.fetches >= 1) =>
          /\ main'.fetches = 1
          /\ pc' = "exited" <=> (main'.fetched = None \/ main'.fetched = List(<<>>))
          /\ pc' = "exited" =>
                /\ state' = NoEvaluator
                /\ call' = NoCall
                /\ ~main'.email_action
                /\ main'.i = 0
                /\ main'.results = <<>>
                /\ main'.sent = <<>>
                /\ main'.delivered = <<>>
                /\ main'.stdout = <<>>
                /\ main'.saves = 0
                /\ state_file' = state_file]_vars

\* get_forecast returned None to a run with two rules and a state file: the
\* run has exited.
C27_Witness ==
    /\ main # NoMain
    /\ pc = "exited"
    /\ main.fetched = None
    /\ main.fetches = 1
    /\ ~main.dry_run
    /\ Len(alert_rules) = 2
    /\ state_file = FiredIn2024


(***************************************************************************)
(* C24: the order of the rules                                              *)
(***************************************************************************)
\* The run ended before it came to the rule.
NotReached == [not_reached |-> TRUE]

\* What the rule loop of main yields on the list `rules` from position i on,
\* starting with the store st: per rule the value evaluate returned (Skipped
\* for a disabled rule, the exception for the rule that raised, NotReached for
\* the rules after it), and the store at the end.
RECURSIVE LoopOutcome(_, _, _, _, _)
LoopOutcome(rules, i, forecast_data, st, clock) ==
    IF i > Len(rules)
    THEN [results |-> <<>>, state |-> st]
    ELSE IF ~Get(rules[i], "enabled", TRUE)
    THEN LET rest == LoopOutcome(rules, i + 1, forecast_data, st, clock)
         IN  [results |-> <<Skipped>> \o rest.results, state |-> rest.state]
    ELSE LET out == EvaluateCondition(rules[i].condition, forecast_data, st, clock)
         IN  IF HasRaised(out.result)
             THEN [results |-> <<out.result>> \o [j \in 1..(Len(rules) - i) |-> NotReached],
                   state |-> out.state]
             ELSE LET rest == LoopOutcome(rules, i + 1, forecast_data, out.state, clock)
                  IN  [results |-> <<out.result>> \o rest.results, state |-> rest.state]

\* The orders of a list of n rules.
Orders(n) == {p \in [1..n -> 1..n] : \A i, j \in 1..n : p[i] = p[j] => i = j}

\* The rule loop of this run is over: every rule has been processed, or an
\* exception has ended the run.
LoopOver ==
    /\ main # NoMain
    /\ main.i >= 1
    /\ \/ pc = "evaluating" /\ main.i > Len(alert_rules)
       \/ pc = "crashed"

\* The outcome of the rule at position i in this run.
OutcomeOf(i) ==
    IF i <= Len(main.results) THEN main.results[i]
    ELSE IF i = Len(main.results) + 1 THEN result
    ELSE NotReached

\* No two first_occurrence rules of the list share a state key.
NoSharedKey ==
    \A i, j \in DOMAIN alert_rules :
        (/\ i < j
         /\ IsFirstOccurrence(alert_rules[i].condition)
         /\ IsFirstOccurrence(alert_rules[j].condition))
            => KeyOf(alert_rules[i].condition) # KeyOf(alert_rules[j].condition)

\* C24: within one run the outcome of each rule does not depend on the order
\* of the rules, except between first_occurrence rules that share a state
\* key: for a rule list in which no two first_occurrence rules share a key,
\* the run over any reordering of the list, from the same state file, gives
\* every rule the outcome it has in this run and ends with the same store.
C24_OrderIndependent ==
    (LoopOver /\ NoSharedKey) =>
        \A p \in Orders(Len(alert_rules)) :
            LET reordered == [i \in DOMAIN alert_rules |-> alert_rules[p[i]]]
                rerun == LoopOutcome(reordered, 1, main.forecast_data,
                                     LoadState(state_file), now)
            IN  /\ \A i \in DOMAIN alert_rules : rerun.results[i] = OutcomeOf(p[i])
                /\ rerun.state = state


(***************************************************************************)
(* C25: what evaluate changes                                               *)
(***************************************************************************)
\* The last call was a first_occurrence evaluation that returned
\* triggered=true.
FirstOccurrenceTriggered == SeasonCall /\ Returned /\ result.triggered

\* C25: evaluate modifies the store only when a first_occurrence evaluation
\* returns triggered=true, and then only the record of that condition's key
\* changes; every other call (threshold, combined, unknown type, out of
\* season, already fired, not matching) leaves the whole store as it was; no
\* call changes the condition or the forecast it was given.
C25_Frame ==
    [][(result = NoCall /\ result' # NoCall) =>
          /\ call'.condition = call.condition
          /\ call'.forecast_data = call.forecast_data
          /\ call'.before = state
          /\ DOMAIN state' = DOMAIN state
          /\ IF FirstOccurrenceTriggered'
             THEN /\ DOMAIN state'.occurrences
                       = DOMAIN state.occurrences \cup {KeyOf(call.condition)}
                  /\ \A k \in DOMAIN state.occurrences :
                        k # KeyOf(call.condition)
                            => state'.occurrences[k] = state.occurrences[k]
                  /\ state'.occurrences[KeyOf(call.condition)].year = now.year
             ELSE state' = state]_vars

\* The all-year rule has fired on a store that held its record of last year
\* and the winter rule's record of this year: its record is new, the other as
\* it was.
C25_Witness ==
    /\ FirstOccurrenceTriggered
    /\ call.condition = FreezeAnyMonth
    /\ call.before = [occurrences |-> (KeyOf(FreezeAnyMonth) :> FiredOn(2023))
                                        @@ (KeyOf(FreezeWinter) :> FiredOn(2024))]
    /\ state.occurrences[KeyOf(FreezeAnyMonth)].year = 2024
    /\ state.occurrences[KeyOf(FreezeWinter)] = FiredOn(2024)


(***************************************************************************)
(* C26: the store invariant                                                 *)
(***************************************************************************)
\* The year an ISO date starts with.
YearOf(date) == ParseInt(SubSeq(date, 1, 4))

\* C26: starting from an empty store, with a clock that never goes back,
\* after any sequence of evaluate calls the store holds at most one record per
\* key and only for keys of first_occurrence conditions that have triggered;
\* a record's year is the year of its date field, is never greater than the
\* clock's year, and is the most recent year in which a first_occurrence
\* evaluation for its key returned triggered=true.
C26_StoreInvariant ==
    /\ DOMAIN state = {"occurrences"}
    /\ DOMAIN state.occurrences = {k \in SeasonKeys : fired[k].last # 0}
    /\ \A k \in DOMAIN state.occurrences :
          /\ state.occurrences[k].year = YearOf(state.occurrences[k].date)
          /\ state.occurrences[k].year <= now.year
          /\ state.occurrences[k].year = fired[k].last

\* In the last year of the clock one key has fired again and holds this
\* year's record, while another key still holds the record of an earlier year.
C26_Witness ==
    /\ now.year = LastYear
    /\ \E k, older \in DOMAIN state.occurrences :
          /\ state.occurrences[k].year = LastYear
          /\ fired[k].year = 1
          /\ state.occurrences[older].year < LastYear
          /\ fired[older].year = 0


(***************************************************************************)
(* C28: rules that share a state key                                        *)
(***************************************************************************)
\* The positions before j of the enabled first_occurrence rules with the key
\* of rule j whose threshold matches the forecast of this run.
EarlierMatches(j) ==
    {i \in 1..(j - 1) :
        /\ Get(alert_rules[i], "enabled", TRUE)
        /\ IsFirstOccurrence(alert_rules[i].condition)
        /\ KeyOf(alert_rules[i].condition) = KeyOf(alert_rules[j].condition)
        /\ ThresholdMatches(alert_rules[i].condition, main.forecast_data)}

\* C28: two first_occurrence conditions with the same field and season but
\* different thresholds share one record. No key triggers twice in a calendar
\* year, whichever of the conditions asks; and within one run a rule with the
\* key triggers exactly when its threshold matches, the store the run loaded
\* has no record of this year for the key, and no earlier rule in list order
\* with the same key has a matching threshold.
C28_SharedRecord ==
    (main # NoMain /\ pc = "evaluating") =>
        /\ \A k \in SeasonKeys : fired[k].year <= 1
        /\ \A j \in DOMAIN main.results :
              IsFirstOccurrence(alert_rules[j].condition) =>
                 (main.results[j].triggered <=>
                     /\ ThresholdMatches(alert_rules[j].condition, main.forecast_data)
                     /\ ~HasFired(LoadState(state_file), KeyOf(alert_rules[j].condition),
                                  now.year)
                     /\ EarlierMatches(j) = {})

\* A second run in the same year, on a freezing night: "Chilly" stands first
\* and the record of the shared key is of this year, so neither rule
\* triggers although the threshold of "First" is met.
C28_Witness ==
    /\ main # NoMain
    /\ pc = "evaluating"
    /\ main.run = 2
    /\ alert_rules = <<ChillyRule, FirstFreezeRule>>
    /\ main.forecast_data = TempForecast(<<28>>)
    /\ Len(main.results) = 2
    /\ main.results[1] = [triggered |-> FALSE]
    /\ main.results[2] = [triggered |-> FALSE]
    /\ fired[KeyOf(FreezeAnyMonth)].year = 1


(***************************************************************************)
(* C29: marking a key as fired does not depend on delivery                  *)
(***************************************************************************)
\* C29: the record of a first occurrence is written during evaluate, before
\* any action runs, and save_state persists it at the end of the run, whether
\* the run is a dry run, the email send fails or the action type is unknown:
\* a key that has triggered in this run has its record of this year in the
\* store, and in the state file once the run has saved; no later run in the
\* same year triggers the key again.
C29_MarkedWhateverDelivery ==
    main # NoMain =>
        \A k \in SeasonKeys :
            /\ fired[k].run >= 1 => HasFired(state, k, now.year)
            /\ (fired[k].run >= 1 /\ pc = "saved")
                  => HasFired(LoadState(state_file), k, now.year)
            /\ fired[k].year <= 1

\* The second run of 2024 has ended, not a dry run, on a freezing night: in an
\* earlier run a message was not delivered, the key's record of 2024 is in the
\* state file, and no rule has triggered in this run.
C29_Witness ==
    /\ main # NoMain
    /\ pc = "saved"
    /\ main.run = 2
    /\ main.undelivered
    /\ ~main.dry_run
    /\ now.year = 2024
    /\ alert_rules = <<FirstFreezeRule, ChillyRule>>
    /\ main.forecast_data = TempForecast(<<28>>)
    /\ main.results = <<[triggered |-> FALSE], [triggered |-> FALSE]>>
    /\ main.sent = <<>>
    /\ fired[KeyOf(FreezeAnyMonth)].year = 1
    /\ HasFired(LoadState(state_file), KeyOf(FreezeAnyMonth), 2024)


(***************************************************************************)
(* C30: overlapping runs                                                    *)
(***************************************************************************)
\* The keys recorded in a state document.
RecordedIn(file) == DOMAIN LoadState(file).occurrences

\* C30: load, evaluate and save are not atomic and the state file is not
\* locked. A process works on the store it loaded: no step of the other
\* process, its save included, changes that store, so a process that loaded
\* before the other saved triggers a key the other has already triggered.
\* And a save writes the saving process's own store as the whole document:
\* the keys recorded afterwards are exactly the keys of that store, so a
\* record only the earlier saver wrote is gone after the later save.
C30_NoLockLastSaveWins ==
    [][/\ (other' # other) => (state' = state /\ pc' = pc)
       /\ (state' # state \/ pc' # pc) => other' = other
       /\ (pc = "evaluating" /\ pc' = "saved") =>
             /\ state_file' = JsonDump(state)
             /\ RecordedIn(state_file') = DOMAIN state.occurrences
       /\ (other.pc = "evaluating" /\ other'.pc = "saved") =>
             /\ state_file' = JsonDump(other.state)
             /\ RecordedIn(state_file') = DOMAIN other.state.occurrences
       /\ state_file' # state_file =>
             \/ pc = "evaluating" /\ pc' = "saved"
             \/ other.pc = "evaluating" /\ other'.pc = "saved"]_vars

\* Both processes have run once in January 2024 and saved, the first before
\* the second: a key has triggered in both of them, and a record that only
\* the first process wrote is not in the state file.
C30_Witness ==
    /\ other # NoOther
    /\ pc = "saved"
    /\ other.pc = "saved"
    /\ \E k \in SeasonKeys :
          /\ fired[k].year = 2
          /\ HasFired(state, k, now.year)
          /\ HasFired(other.state, k, now.year)
    /\ \E lost \in DOMAIN state.occurrences :
          /\ lost \notin DOMAIN other.state.occurrences
          /\ lost \notin RecordedIn(state_file)

====
